---------------------------- MODULE Spec2Model ----------------------------
(***************************************************************************)
(* A model of the contract-analysis pipeline of client/src/lib/gemini.ts:  *)
(* the API key pool (ApiKeyPool), the per-chunk analysis with retries      *)
(* (analyzeChunk), the batch scheduler (processChunksInParallel), the      *)
(* top-level pipeline (analyzeContractWithGemini), the JSON repair         *)
(* (extractJsonFromResponse), the chunker (createChunksWithTokens) and the  *)
(* rule-based stages (findMissingRequirementsReliable,                     *)
(* aggregateAndAnalyzeRights, findStructuralDefects, the entity pairing).  *)
(*                                                                         *)
(* JavaScript is single-threaded: a step of the model is the code that     *)
(* runs between two await points.                                          *)
(***************************************************************************)
EXTENDS Integers, Sequences, FiniteSets, TLC

VARIABLES
  keys,            \* ApiKeyPool.keys: the configured credentials, in order
  currentIndex,    \* ApiKeyPool.currentIndex (0-based, as in the code)
  exhaustedKeys,   \* ApiKeyPool.exhaustedKeys
  poolLog,         \* observer: the successful getNextKey calls, oldest first
  poolLast,        \* observer: the last call made on the pool and its outcome
  pc,              \* where the running analyzeContractWithGemini invocation stands
  totalChunks,     \* chunks.length of the invocation
  batchI,          \* processChunksInParallel: the batch loop's index i
  batchSize,       \* processChunksInParallel: batchSize
  results,         \* processChunksInParallel: the results array (index -> entry)
  processedChunks, \* processChunksInParallel: processedChunks
  lastPercent,     \* the percentage of the last progress message of stage 2
  tasks,           \* the analyzeChunk promises of the current batch, in batch order
  completionOrder, \* observer: the chunks whose analysis returned, in order of completion
  chunkResults,    \* what processChunksInParallel returned to its caller, if it did
  outcome,         \* how the invocation settled: its state, the error caught, the one thrown
  startedExhausted, \* observer: no credential was available when the invocation began
  retryCount,      \* findContradictions: retryCount of the running call
  stageKey,        \* the key of the model call in flight in stages 4 to 7
  contraCalls,     \* observer: model calls issued by findContradictions
  contraDelays,    \* observer: the delays findContradictions waited, in order
  caughtError,     \* findContradictions: the error whose retry is being waited for
  contradictionsResult, \* what findContradictions resolved to: "none" while it has not
  structuralDefects, \* observer: findStructuralDefects, what its rules found and how it went
  finalCalls,      \* observer: model calls issued by performFinalStructuralAnalysis
  stageEvents,     \* observer: the progress events of analyzeContractWithGemini itself, in order
  structuralResult, \* the response of the final summary, what was extracted from it, the report's structuralAnalysis
  paragraphs,      \* createChunksWithTokens: the paragraphs argument
  maxTokensPerChunk, \* createChunksWithTokens: the maxTokensPerChunk argument
  overlapSentences, \* createChunksWithTokens: the overlapSentences argument
  loopI,           \* createChunksWithTokens: the loop index i
  chunks,          \* createChunksWithTokens: chunks
  currentChunk,    \* createChunksWithTokens: currentChunk
  currentTokenCount, \* createChunksWithTokens: currentTokenCount
  previousChunkSentences, \* createChunksWithTokens: previousChunkSentences
  chunksReturned,  \* createChunksWithTokens has returned chunks
  rawResponse,     \* extractJsonFromResponse: the rawResponse argument
  extracted,       \* how the call of extractJsonFromResponse ended, if it was made
  chunkAnalysis,   \* the analysis items of the chunk results, as the model returned them
  allAnalysis,     \* analyzeContractWithGemini: allAnalysis
  contractParagraphs, \* analyzeContractWithGemini: contractParagraphs of the report
  cleanupStage,    \* "arrived", "aggregated" (after stage 3) or "reported" (after stage 8)
  checklistLines,  \* findMissingRequirementsReliable: checklistText, split at bullets and newlines
  gapAnalysis,     \* findMissingRequirementsReliable: the allAnalysis argument
  missingRequirements, \* findMissingRequirementsReliable: what it returned, if it did
  rightsInput,     \* aggregateAndAnalyzeRights: what the chunk results hold of rights
  rightsResult,    \* aggregateAndAnalyzeRights: what it returned, if it did
  clauseParagraphs, \* findStructuralDefects: the paragraphs argument
  ruleDefects,     \* findStructuralDefects: the defects its rules found, once they ran
  entityParagraphs, \* extractEntitiesFromAnalysis: the contractParagraphs argument
  candidates,      \* the entities and what findPotentialContradictions returned for them
  contractLines,   \* splitIntoSpans: the lines of its text argument
  lineIndex,       \* splitIntoSpans: how many lines the loop has taken
  currentParagraph, \* splitIntoSpans: currentParagraph
  spanParagraphs,  \* splitIntoSpans: paragraphs
  spans,           \* splitIntoSpans: what it returned, if it did
  retryEnv,        \* routes.ts: process.env.DEEPSEEK_RETRY_COUNT
  keyCount,        \* POST /api/deepseek/chat: apiKeys.length
  proxyPc,         \* POST /api/deepseek/chat: where the handler of the request stands
  proxyAttempt,    \* POST /api/deepseek/chat: the loop variable attempt
  lastError,       \* POST /api/deepseek/chat: lastError
  upstreamCalls,   \* observer: the upstream calls of the request and how each ended
  responses,       \* observer: the responses sent to the client, in order
  isLoading,       \* useDeepseekAnalysis: the state isLoading
  errorState,      \* useDeepseekAnalysis: the state error
  progress,        \* useDeepseekAnalysis: the state progress
  invocations      \* the analyzeContract invocations: where each stands, what it gave

poolVars == <<keys, currentIndex, exhaustedKeys>>
logVars  == <<poolLog, poolLast>>
stageVars == <<retryCount, stageKey, contraCalls, contraDelays, caughtError,
               contradictionsResult, structuralDefects, finalCalls, structuralResult,
               stageEvents>>
pipeVars == <<pc, totalChunks, batchI, batchSize, results, processedChunks, lastPercent,
              tasks, completionOrder, chunkResults, outcome, startedExhausted, stageVars>>

-----------------------------------------------------------------------------
(* Bounds of the model.                                                    *)

\* The credential strings a pool is configured with.
KeySet == {"k1", "k2", "k3"}

\* Longest list of successful getNextKey calls that is observed.
MaxLog == 5

\* Sequences over S of length 1..n.
RECURSIVE SeqsUpTo(_, _)
SeqsUpTo(S, n) ==
  IF n = 0 THEN {<<>>}
  ELSE LET shorter == SeqsUpTo(S, n - 1)
       IN  shorter \cup {Append(s, x) : s \in {t \in shorter : Len(t) = n - 1}, x \in S}

\* The value of VITE_DEEPSEEK_API_KEYS after split(',').trim().filter(nonempty):
\* any non-empty list of strings; the constructor does not remove duplicates.
PoolConfigs == SeqsUpTo(KeySet, Cardinality(KeySet)) \ {<<>>}

NoKey == "none"

Range(f) == {f[x] : x \in DOMAIN f}

-----------------------------------------------------------------------------
(* Errors.  A message is modelled by the set of known phrases it contains; *)
(* a phrase may occur in another letter case, which toLowerCase() removes. *)

QuotaPhrases == {"insufficient_quota", "exceeded your current quota",
                 "insufficient balance", "out of credit"}
RateLimitPhrase == "rate limit"
\* The message of the error getNextKey throws when no key is available
\* ("Vse API klyuchi ischerpali svoi kvoty" in the source, in Russian).
AllKeysExhaustedPhrase == "all API keys exhausted their quotas"

\* String.prototype.toLowerCase on one phrase.
LowerPhrase(p) ==
  CASE p = "Insufficient Balance" -> "insufficient balance"
    [] p = "Rate limit"           -> "rate limit"
    [] OTHER                      -> p

ToLowerCase(message) == {LowerPhrase(p) : p \in message}

Includes(message, phrase) == phrase \in message

\* A thrown value: a DeepSeekApiError (isApi, with status and code) or a plain
\* Error (status and code undefined, modelled as 0 and "undefined").
MkError(isApi, status, code, message) ==
  [isApi |-> isApi, status |-> status, code |-> code, message |-> message]

\* DeepSeekApiError.isQuotaExhausted
isQuotaExhausted(e) ==
  LET message == ToLowerCase(e.message)
  IN  \/ e.code = "insufficient_quota"
      \/ Includes(message, "insufficient_quota")
      \/ Includes(message, "exceeded your current quota")
      \/ Includes(message, "insufficient balance")
      \/ Includes(message, "out of credit")

\* DeepSeekApiError.isRateLimited
isRateLimited(e) ==
  LET message == ToLowerCase(e.message)
  IN  e.status = 429 \/ e.code = "rate_limit_exceeded" \/ Includes(message, "rate limit")

-----------------------------------------------------------------------------
(* ApiKeyPool                                                              *)

\* this.keys.filter(key => !this.exhaustedKeys.has(key))
availableKeys(ks, exh) == SelectSeq(ks, LAMBDA k : k \notin exh)

\* The while loop of getNextKey: the cursor advances past every key it looks at.
RECURSIVE ScanKeys(_, _, _, _)
ScanKeys(ks, idx, exh, attempts) ==
  IF attempts >= Len(ks)
  THEN [ok |-> FALSE, err |-> "KeyNotFound", key |-> NoKey, index |-> idx]
  ELSE LET key  == ks[idx + 1]
           next == (idx + 1) % Len(ks)
       IN  IF key \notin exh
           THEN [ok |-> TRUE, err |-> "none", key |-> key, index |-> next]
           ELSE ScanKeys(ks, next, exh, attempts + 1)

\* A getNextKey that hands out the key under the cursor without looking at the
\* exhausted set.
GetNextKeyNoSkip(ks, idx, exh) ==
  IF Len(availableKeys(ks, exh)) = 0
  THEN [ok |-> FALSE, err |-> "AllKeysExhausted", key |-> NoKey, index |-> idx]
  ELSE [ok |-> TRUE, err |-> "none", key |-> ks[idx + 1], index |-> (idx + 1) % Len(ks)]

\* ApiKeyPool.getNextKey: the outcome (a key, or the error thrown) and the new cursor.
getNextKey(ks, idx, exh) ==
  IF Len(availableKeys(ks, exh)) = 0
  THEN [ok |-> FALSE, err |-> "AllKeysExhausted", key |-> NoKey, index |-> idx]
  ELSE ScanKeys(ks, idx, exh, 0)

\* A mark that forgets the keys marked before.
MarkKeepsOnlyLast(exh, key) == {key}

\* ApiKeyPool.markKeyAsExhausted: the new exhausted set.
markKeyAsExhausted(exh, key) == exh \cup {key}

\* A count that takes every configured key as available.
AvailableKeyCountOfAll(ks, exh) == Len(ks)

\* ApiKeyPool.getAvailableKeyCount
getAvailableKeyCount(ks, exh) == Len(ks) - Cardinality(exh)

\* A handleApiError that retires the key on a rate limit as well.
HandleApiErrorRetiresOnRateLimit(exh, key, error) ==
  LET lowerMessage == ToLowerCase(error.message)
      quota == \/ (error.isApi /\ isQuotaExhausted(error))
               \/ \E p \in QuotaPhrases : Includes(lowerMessage, p)
      rate  == \/ (error.isApi /\ isRateLimited(error))
               \/ error.status = 429
               \/ error.code = "rate_limit_exceeded"
               \/ Includes(lowerMessage, RateLimitPhrase)
  IN  IF quota \/ rate
      THEN [retry |-> TRUE, exhausted |-> markKeyAsExhausted(exh, key)]
      ELSE [retry |-> FALSE, exhausted |-> exh]

\* ApiKeyPool.handleApiError: the value returned and the new exhausted set.
handleApiError(exh, key, error) ==
  LET lowerMessage == ToLowerCase(error.message)
      quota == \/ (error.isApi /\ isQuotaExhausted(error))
               \/ Includes(lowerMessage, "insufficient_quota")
               \/ Includes(lowerMessage, "exceeded your current quota")
               \/ Includes(lowerMessage, "insufficient balance")
               \/ Includes(lowerMessage, "out of credit")
      rate  == \/ (error.isApi /\ isRateLimited(error))
               \/ error.status = 429
               \/ error.code = "rate_limit_exceeded"
               \/ Includes(lowerMessage, "rate limit")
  IN  IF quota THEN [retry |-> TRUE, exhausted |-> markKeyAsExhausted(exh, key)]
      ELSE IF rate THEN [retry |-> TRUE, exhausted |-> exh]
      ELSE [retry |-> FALSE, exhausted |-> exh]

-----------------------------------------------------------------------------
(* The pool on its own: any sequence of calls on one ApiKeyPool.           *)

\* The errors handed to handleApiError: DeepSeekApiErrors and plain Errors, with
\* every combination of status, code and message phrase the classification reads.
PoolErrors ==
  {MkError(TRUE, s, c, m) :
     s \in {429, 500}, c \in {"undefined", "insufficient_quota", "rate_limit_exceeded"},
     m \in {{}, {"Insufficient Balance"}, {"Rate limit"}}}
  \cup {MkError(FALSE, 0, "undefined", m) :
     m \in {{}, {"out of credit"}, {"exceeded your current quota"},
            {"insufficient_quota", "rate limit"}, {"Rate limit"}, {"network"}}}

\* One error of each class, for the runs that observe the rotation.
QuotaError   == MkError(TRUE, 402, "insufficient_quota", {"Insufficient Balance"})
RateError    == MkError(TRUE, 429, "rate_limit_exceeded", {})
ServerError  == MkError(TRUE, 500, "undefined", {})
NetworkError == MkError(FALSE, 0, "undefined", {"network"})

NoCall == [op |-> "none"]

chunkerVars == <<paragraphs, maxTokensPerChunk, overlapSentences, loopI, chunks, currentChunk,
                 currentTokenCount, previousChunkSentences, chunksReturned>>
repairVars == <<rawResponse, extracted>>
cleanupVars == <<chunkAnalysis, allAnalysis, contractParagraphs, cleanupStage>>
gapVars == <<checklistLines, gapAnalysis, missingRequirements>>
rightsVars == <<rightsInput, rightsResult>>
defectVars == <<clauseParagraphs, ruleDefects>>
entityVars == <<entityParagraphs, candidates>>
ruleVars == <<gapVars, rightsVars, defectVars, entityVars>>
spanVars == <<contractLines, lineIndex, currentParagraph, spanParagraphs, spans>>
toolVars == <<chunkerVars, repairVars, cleanupVars, ruleVars, spanVars>>
proxyVars == <<retryEnv, keyCount, proxyPc, proxyAttempt, lastError, upstreamCalls, responses>>
hookVars == <<isLoading, errorState, progress, invocations>>
serviceVars == <<proxyVars, hookVars>>

\* JavaScript's null and undefined (a key the model left out).
Null == "<null>"
Undef == "<undefined>"

\* A hole of a JavaScript array, what a function that has not returned gave,
\* no error, no message, and an invocation that was never made.
Undefined == [defined |-> FALSE, analysisOf |-> 0 - 1]
NotReturned == [returned |-> FALSE, value |-> <<>>]
NoError == [isApi |-> FALSE, status |-> 0, code |-> "undefined", message |-> {"no error"}]
NoMessage == [kind |-> "none", original |-> {}]
Pending == [state |-> "none", message |-> NoMessage, caught |-> {}]

\* extractJsonFromResponse has not been called.
NotExtracted == [called |-> FALSE, threw |-> FALSE, value |-> [kind |-> "none"]]

\* No call of createChunksWithTokens is modelled.
ChunkerIdle ==
  /\ paragraphs = <<>>
  /\ maxTokensPerChunk = 0
  /\ overlapSentences = 0
  /\ loopI = 0
  /\ chunks = <<>>
  /\ currentChunk = <<>>
  /\ currentTokenCount = 0
  /\ previousChunkSentences = <<>>
  /\ chunksReturned = FALSE

\* No call of extractJsonFromResponse is modelled.
RepairIdle ==
  /\ rawResponse = <<>>
  /\ extracted = NotExtracted

\* No cleanup of analysis items is modelled.
CleanupIdle ==
  /\ chunkAnalysis = <<>>
  /\ allAnalysis = <<>>
  /\ contractParagraphs = <<>>
  /\ cleanupStage = "none"

\* A rule-based function that has not returned.
NotComputed == [computed |-> FALSE, value |-> <<>>]

\* No call of findMissingRequirementsReliable is modelled.
GapsIdle ==
  /\ checklistLines = <<>>
  /\ gapAnalysis = <<>>
  /\ missingRequirements = NotComputed

\* No call of aggregateAndAnalyzeRights is modelled.
NoRights == [clauses |-> <<>>, buyerRightsCount |-> 0, supplierRightsCount |-> 0]
RightsIdle ==
  /\ rightsInput = NoRights
  /\ rightsResult = NotComputed

\* No call of findStructuralDefects is modelled.
DefectsIdle ==
  /\ clauseParagraphs = <<>>
  /\ ruleDefects = NotComputed

\* No call of extractEntitiesFromAnalysis is modelled.
EntitiesIdle ==
  /\ entityParagraphs = <<>>
  /\ candidates = NotComputed

\* No call of splitIntoSpans is modelled.
SpansIdle ==
  /\ contractLines = <<>>
  /\ lineIndex = 0
  /\ currentParagraph = ""
  /\ spanParagraphs = <<>>
  /\ spans = NotComputed

\* No request to the proxy is modelled.
ProxyIdle ==
  /\ retryEnv = "unset"
  /\ keyCount = 1
  /\ proxyPc = "idle"
  /\ proxyAttempt = 0
  /\ lastError = Undef
  /\ upstreamCalls = <<>>
  /\ responses = <<>>

\* The hook is not used.
HookIdle ==
  /\ isLoading = FALSE
  /\ errorState = Null
  /\ progress = ""
  /\ invocations = <<>>

ServiceIdle == ProxyIdle /\ HookIdle

\* No call of a rule-based stage is modelled.
RulesIdle == GapsIdle /\ RightsIdle /\ DefectsIdle /\ EntitiesIdle /\ SpansIdle

\* findStructuralDefects has not been called.
NoDefects ==
  [simple |-> 0, cyclic |-> 0, suspicious |-> FALSE, calls |-> 0, state |-> "none",
   failed |-> FALSE, ruleBased |-> 0]

\* The pipeline at rest: no invocation has been made.
\* The model has not answered the call of performFinalStructuralAnalysis.
NoSummary ==
  [answered |-> FALSE, content |-> <<>>, value |-> [kind |-> "none"], structuralAnalysis |-> "none"]

StagesIdle ==
  /\ retryCount = 0
  /\ stageKey = NoKey
  /\ contraCalls = 0
  /\ contraDelays = <<>>
  /\ caughtError = NoError
  /\ contradictionsResult = "none"
  /\ structuralDefects = NoDefects
  /\ finalCalls = 0
  /\ structuralResult = NoSummary
  /\ stageEvents = <<>>

PipelineIdle ==
  /\ pc = "idle"
  /\ totalChunks = 0
  /\ batchI = 0
  /\ batchSize = 0
  /\ results = <<>>
  /\ processedChunks = 0
  /\ lastPercent = 0
  /\ tasks = <<>>
  /\ completionOrder = <<>>
  /\ chunkResults = NotReturned
  /\ outcome = Pending
  /\ startedExhausted = FALSE
  /\ StagesIdle

InitPool ==
  /\ ServiceIdle
  /\ keys \in PoolConfigs
  /\ currentIndex = 0
  /\ exhaustedKeys = {}
  /\ poolLog = <<>>
  /\ poolLast = NoCall
  /\ PipelineIdle
  /\ ChunkerIdle
  /\ RepairIdle
  /\ CleanupIdle
  /\ RulesIdle

\* keyPool.getNextKey()
PoolGetNextKey ==
  /\ Len(poolLog) < MaxLog
  /\ LET r == getNextKey(keys, currentIndex, exhaustedKeys)
     IN  /\ currentIndex' = r.index
         /\ poolLog' = IF r.ok
                       THEN Append(poolLog, [key |-> r.key, exhausted |-> exhaustedKeys])
                       ELSE poolLog
         /\ poolLast' = [op |-> "getNextKey", ok |-> r.ok, err |-> r.err, key |-> r.key,
                         exhaustedBefore |-> exhaustedKeys]
  /\ UNCHANGED <<keys, exhaustedKeys, pipeVars, toolVars, serviceVars>>

\* keyPool.markKeyAsExhausted(key), for a key of the pool
PoolMarkKeyAsExhausted ==
  \E i \in 1..Len(keys) :
    /\ exhaustedKeys' = markKeyAsExhausted(exhaustedKeys, keys[i])
    /\ poolLast' = [op |-> "markKeyAsExhausted"]
    /\ UNCHANGED <<keys, currentIndex, poolLog, pipeVars, toolVars, serviceVars>>

\* keyPool.handleApiError(key, error), for a key of the pool and an error of E
HandleApiErrorCall(E) ==
  \E i \in 1..Len(keys), e \in E :
    LET r == handleApiError(exhaustedKeys, keys[i], e)
    IN  /\ exhaustedKeys' = r.exhausted
        /\ poolLast' = [op |-> "handleApiError", key |-> keys[i], error |-> e,
                        retry |-> r.retry, exhaustedBefore |-> exhaustedKeys]
        /\ UNCHANGED <<keys, currentIndex, poolLog, pipeVars, toolVars, serviceVars>>

PoolHandleApiError == HandleApiErrorCall({QuotaError, ServerError})

vars == <<poolVars, logVars, pipeVars, toolVars, serviceVars>>

NextPool == PoolGetNextKey \/ PoolMarkKeyAsExhausted \/ PoolHandleApiError

SpecPool == InitPool /\ [][NextPool]_vars

-----------------------------------------------------------------------------
(* The error classification on its own: handleApiError on every error, with  *)
(* getNextKey calls in between (unobserved).                                 *)

ClassifyGetNextKey ==
  /\ currentIndex' = getNextKey(keys, currentIndex, exhaustedKeys).index
  /\ poolLast' = [op |-> "getNextKey"]
  /\ UNCHANGED <<keys, exhaustedKeys, poolLog, pipeVars, toolVars, serviceVars>>

ClassifyHandleApiError == HandleApiErrorCall(PoolErrors)

NextClassify == ClassifyGetNextKey \/ ClassifyHandleApiError

SpecClassify == InitPool /\ [][NextClassify]_vars

-----------------------------------------------------------------------------
(* analyzeChunk: one chunk through the model, with retries.                *)

maxRetries == 3

\* The error getNextKey throws when every key is exhausted, and the one it
\* throws when its scan finds no key.
KeyPoolError(err) ==
  IF err = "AllKeysExhausted"
  THEN MkError(FALSE, 0, "undefined", {AllKeysExhaustedPhrase})
  ELSE MkError(FALSE, 0, "undefined", {"key not found"})

\* The promise of analyzeChunk for chunks[index], before its first attempt.
NewTask(index) ==
  [chunk |-> index, index |-> index, st |-> "new", attempt |-> 0, key |-> NoKey,
   calls |-> 0, failures |-> 0, delay |-> 0, lastError |-> NoError,
   thrown |-> NoError, result |-> Undefined]

\* The head of the retry loop for attempt number attempt: r is what getNextKey
\* gave.  The call is outside the try block, so its error leaves analyzeChunk.
StartAttempt(task, attempt, r) ==
  IF r.ok
  THEN [task EXCEPT !.st = "calling", !.attempt = attempt, !.key = r.key,
                    !.calls = @ + 1, !.delay = 0]
  ELSE [task EXCEPT !.st = "rejected", !.attempt = attempt, !.key = NoKey,
                    !.delay = 0, !.thrown = KeyPoolError(r.err)]

\* A catch block that goes on to a further attempt after the last one.
CatchNeverGivesUp(ks, exh, key, error, attempt) ==
  LET h == handleApiError(exh, key, error)
  IN  [exhausted |-> h.exhausted, next |-> "continue", delay |-> 1000 * (attempt + 1)]

\* A catch block that ends the analysis of the chunk at an error handleApiError
\* does not tell to retry.
CatchEndsOnNonRetryable(ks, exh, key, error, attempt) ==
  LET h == handleApiError(exh, key, error)
      available == getAvailableKeyCount(ks, h.exhausted)
  IN  IF h.retry /\ available > 0 /\ attempt < maxRetries - 1
      THEN [exhausted |-> h.exhausted, next |-> "continue", delay |-> 2000]
      ELSE IF h.retry /\ attempt < maxRetries - 1
      THEN [exhausted |-> h.exhausted, next |-> "continue", delay |-> 1000 * (attempt + 1)]
      ELSE [exhausted |-> h.exhausted, next |-> "throw", delay |-> 0]

\* The catch block of analyzeChunk: the new exhausted set, whether the loop goes
\* on to the next attempt (after delay ms) or ends, throwing lastError.
analyzeChunkCatch(ks, exh, key, error, attempt) ==
  LET h == handleApiError(exh, key, error)
      available == getAvailableKeyCount(ks, h.exhausted)
  IN  IF h.retry /\ available > 0 /\ attempt < maxRetries - 1
      THEN [exhausted |-> h.exhausted, next |-> "continue", delay |-> 2000]
      ELSE IF attempt < maxRetries - 1
      THEN [exhausted |-> h.exhausted, next |-> "continue", delay |-> 1000 * (attempt + 1)]
      ELSE [exhausted |-> h.exhausted, next |-> "throw", delay |-> 0]

-----------------------------------------------------------------------------
(* processChunksInParallel and the chunk stage of analyzeContractWithGemini *)

\* Largest number of chunks of a contract.
MaxChunks == 4

\* The cap on the batch size.
maxBatch == 8

\* The credential lists of the pipeline runs: one key, two keys, one key twice.
PipelinePools == {<<"k1">>, <<"k1", "k2">>, <<"k1", "k1">>}

\* What a chunk's model call can fail with.
ChunkErrors == {QuotaError, RateError, ServerError}

Min(a, b) == IF a < b THEN a ELSE b

\* Math.round((processed / total) * 100).  For fewer than 40 chunks the
\* arithmetic of JavaScript numbers gives what exact arithmetic gives; see
\* roundedPercent.
percentComplete(processed, total) == (200 * processed + total) \div (2 * total)

\* batch.map(async (chunk, index) => ...): the callbacks run one after the other,
\* each up to its first await, so the first getNextKey calls happen in batch order.
RECURSIVE LaunchTasks(_, _, _, _)
LaunchTasks(from, to, idx, launched) ==
  IF from >= to THEN [tasks |-> launched, index |-> idx]
  ELSE LET r == getNextKey(keys, idx, exhaustedKeys)
       IN  LaunchTasks(from + 1, to, r.index,
                       Append(launched, StartAttempt(NewTask(from), 0, r)))

\* A store that fills the array from its end.
ResultSlotMirrored(task, batchIndex) == totalChunks - 1 - task.index

\* results[result.value.index]: where the result of a fulfilled promise is stored.
resultSlot(task, batchIndex) == task.index

\* A fulfilled entry of Promise.allSettled, for a result that is kept.
Fulfilled(task) == task.st = "fulfilled"

\* A collection that treats a rejected promise like a fulfilled one.
SettledCountsAsFulfilled(task) == task.st \in {"fulfilled", "rejected"}

\* result.status === 'fulfilled'
isFulfilled(task) == Fulfilled(task)

\* The message of the error the map callback throws for a failed chunk, and of
\* the error the forEach throws for it; both embed the original message.
WrapMessage(error) == error.message

\* batchResults.forEach(...): stores the fulfilled results in batch order and
\* throws at the first rejected one.
RECURSIVE forEachSettled(_, _, _, _)
forEachSettled(ts, k, res, processed) ==
  IF k > Len(ts)
  THEN [threw |-> FALSE, results |-> res, processedChunks |-> processed,
        message |-> {}]
  ELSE IF isFulfilled(ts[k])
  THEN forEachSettled(ts, k + 1,
                      [res EXCEPT ![resultSlot(ts[k], k - 1)] = ts[k].result],
                      processed + 1)
  ELSE [threw |-> TRUE, results |-> res, processedChunks |-> processed,
        message |-> WrapMessage(ts[k].thrown)]

\* A catch block that throws the error it caught.
RethrowUnwrapped(message) == [kind |-> "unwrapped", original |-> message]

\* The catch block of analyzeContractWithGemini: the error it throws for an
\* error with the given message.
userFacingError(message) ==
  IF "Candidate was blocked" \in message THEN [kind |-> "blocked", original |-> {}]
  ELSE IF AllKeysExhaustedPhrase \in message
  THEN [kind |-> "all keys exhausted", original |-> {}]
  ELSE IF "Resource has been exhausted" \in message
  THEN [kind |-> "request limit", original |-> {}]
  ELSE IF {"ne udalos rasparsit", "Failed to parse"} \cap message # {}
  THEN [kind |-> "parse", original |-> {}]
  ELSE [kind |-> "generic", original |-> message]

\* The invocation rejects: the top-level catch rethrows.
Reject(message) ==
  /\ outcome' = [state |-> "rejected", message |-> userFacingError(message),
                  caught |-> message]
  /\ pc' = "idle"

InitPipeline ==
  /\ ServiceIdle
  /\ keys \in PipelinePools
  /\ currentIndex = 0
  /\ exhaustedKeys = {}
  /\ poolLog = <<>>
  /\ poolLast = NoCall
  /\ PipelineIdle
  /\ ChunkerIdle
  /\ RepairIdle
  /\ CleanupIdle
  /\ RulesIdle

\* analyzeContractWithGemini is called: stage 1 and the head of
\* processChunksInParallel, for a contract of n chunks.
StartAnalysis ==
  /\ pc = "idle"
  /\ \E n \in 0..MaxChunks :
       /\ totalChunks' = n
       /\ results' = [j \in 0..(n - 1) |-> Undefined]
  /\ batchSize' = Min(maxBatch, getAvailableKeyCount(keys, exhaustedKeys))
  /\ batchI' = 0
  /\ processedChunks' = 0
  /\ lastPercent' = 0
  /\ tasks' = <<>>
  /\ completionOrder' = <<>>
  /\ chunkResults' = NotReturned
  /\ outcome' = [state |-> "running", message |-> NoMessage, caught |-> {}]
  /\ startedExhausted' = (Range(keys) \subseteq exhaustedKeys)
  /\ retryCount' = 0
  /\ stageKey' = NoKey
  /\ contraCalls' = 0
  /\ contraDelays' = <<>>
  /\ caughtError' = NoError
  /\ contradictionsResult' = "none"
  /\ structuralDefects' = NoDefects
  /\ finalCalls' = 0
  /\ structuralResult' = NoSummary
  /\ stageEvents' = <<"stage 1", "stage 2">>
  /\ pc' = "batchHead"
  /\ UNCHANGED <<toolVars, poolVars, logVars, serviceVars>>

\* One iteration of the batch loop up to its await: progress, then every chunk
\* of the batch is started.
LaunchBatch ==
  /\ pc = "batchHead"
  /\ batchI < totalChunks
  /\ LET l == LaunchTasks(batchI, Min(batchI + batchSize, totalChunks), currentIndex, <<>>)
     IN  /\ tasks' = l.tasks
         /\ currentIndex' = l.index
  /\ lastPercent' = percentComplete(processedChunks, totalChunks)
  /\ pc' = "awaitBatch"
  /\ UNCHANGED <<toolVars, keys, exhaustedKeys, logVars, totalChunks, batchI, batchSize, results,
                 processedChunks, chunkResults, outcome, startedExhausted, completionOrder, stageVars, serviceVars>>

\* The model call of a chunk succeeds: extractJsonFromResponse gives the
\* analysis of that chunk and analyzeChunk returns it.
ChunkCallSucceeds ==
  /\ pc = "awaitBatch"
  /\ \E t \in 1..Len(tasks) :
       /\ tasks[t].st = "calling"
       /\ tasks' = [tasks EXCEPT ![t].st = "fulfilled",
                                 ![t].result = [defined |-> TRUE,
                                               analysisOf |-> tasks[t].chunk]]
       /\ completionOrder' = Append(completionOrder, tasks[t].chunk)
  /\ UNCHANGED <<toolVars, poolVars, logVars, pc, totalChunks, batchI, batchSize, results,
                 processedChunks, lastPercent, chunkResults, outcome, startedExhausted, stageVars, serviceVars>>

\* The model call of a chunk fails: the catch block of analyzeChunk.
ChunkCallFails ==
  /\ pc = "awaitBatch"
  /\ \E t \in 1..Len(tasks), e \in ChunkErrors :
       /\ tasks[t].st = "calling"
       /\ LET c == analyzeChunkCatch(keys, exhaustedKeys, tasks[t].key, e, tasks[t].attempt)
          IN  /\ exhaustedKeys' = c.exhausted
              /\ tasks' = [tasks EXCEPT
                   ![t].lastError = e,
                   ![t].failures = @ + 1,
                   ![t].delay = c.delay,
                   ![t].st = IF c.next = "continue" THEN "sleeping" ELSE "rejected",
                   ![t].thrown = IF c.next = "continue" THEN NoError ELSE e]
  /\ UNCHANGED <<toolVars, keys, currentIndex, logVars, pc, totalChunks, batchI, batchSize, results,
                 processedChunks, lastPercent, chunkResults, outcome, startedExhausted, completionOrder, stageVars, serviceVars>>

\* The delay before the next attempt is over: the loop draws the next key.
ChunkRetry ==
  /\ pc = "awaitBatch"
  /\ \E t \in 1..Len(tasks) :
       /\ tasks[t].st = "sleeping"
       /\ LET r == getNextKey(keys, currentIndex, exhaustedKeys)
          IN  /\ currentIndex' = r.index
              /\ tasks' = [tasks EXCEPT ![t] = StartAttempt(@, @.attempt + 1, r)]
  /\ UNCHANGED <<toolVars, keys, exhaustedKeys, logVars, pc, totalChunks, batchI, batchSize, results,
                 processedChunks, lastPercent, chunkResults, outcome, startedExhausted, completionOrder, stageVars, serviceVars>>

\* A wait that ends at the first rejection, as Promise.all does.
SettledAtFirstRejection ==
  \/ \E t \in 1..Len(tasks) : tasks[t].st = "rejected"
  \/ \A t \in 1..Len(tasks) : tasks[t].st = "fulfilled"

\* await Promise.allSettled(batchPromises) goes on: every promise has settled.
AllSettled == \A t \in 1..Len(tasks) : tasks[t].st \in {"fulfilled", "rejected"}

\* Promise.allSettled resolved and every promise of the batch was fulfilled.
BatchSucceeds ==
  /\ pc = "awaitBatch"
  /\ AllSettled
  /\ LET c == forEachSettled(tasks, 1, results, processedChunks)
     IN  /\ ~c.threw
         /\ results' = c.results
         /\ processedChunks' = c.processedChunks
         /\ lastPercent' = percentComplete(c.processedChunks, totalChunks)
  /\ IF batchI + batchSize < totalChunks
     THEN pc' = "batchDelay" /\ batchI' = batchI
     ELSE pc' = "batchHead" /\ batchI' = batchI + batchSize
  /\ UNCHANGED <<toolVars, poolVars, logVars, totalChunks, batchSize, tasks, chunkResults,
                 outcome, startedExhausted, completionOrder, stageVars, serviceVars>>

\* Promise.allSettled resolved and a promise of the batch was rejected: the
\* forEach throws, processChunksInParallel rethrows, the invocation rejects.
BatchFails ==
  /\ pc = "awaitBatch"
  /\ AllSettled
  /\ LET c == forEachSettled(tasks, 1, results, processedChunks)
     IN  /\ c.threw
         /\ results' = c.results
         /\ processedChunks' = c.processedChunks
         /\ Reject(c.message)
  /\ UNCHANGED <<toolVars, poolVars, logVars, totalChunks, batchI, batchSize, lastPercent, tasks,
                 chunkResults, startedExhausted, completionOrder, stageVars, serviceVars>>

\* The pause between two batches is over.
NextBatch ==
  /\ pc = "batchDelay"
  /\ batchI' = batchI + batchSize
  /\ pc' = "batchHead"
  /\ UNCHANGED <<toolVars, poolVars, logVars, totalChunks, batchSize, results, processedChunks,
                 lastPercent, tasks, chunkResults, outcome, startedExhausted, completionOrder, stageVars, serviceVars>>

processedCount == Cardinality({j \in DOMAIN results : results[j] # Undefined})

\* The loop has ended: processChunksInParallel returns the array when every
\* slot is filled, and throws when one is not.
ChunksDone ==
  /\ pc = "batchHead"
  /\ batchI >= totalChunks
  /\ IF processedCount = totalChunks
     THEN /\ chunkResults' = [returned |-> TRUE, value |-> results]
          /\ pc' = "stage3"
          /\ outcome' = outcome
     ELSE /\ chunkResults' = chunkResults
          /\ Reject({"not all chunks were processed"})
  /\ tasks' = <<>>
  /\ UNCHANGED <<toolVars, poolVars, logVars, totalChunks, batchI, batchSize, results,
                 processedChunks, lastPercent, startedExhausted, completionOrder, stageVars, serviceVars>>

-----------------------------------------------------------------------------
(* extractJsonFromResponse.  A response is a sequence of characters: the   *)
(* six structural characters of JSON, the quote, and "1", which stands for *)
(* a digit where JSON has a number and for any other character inside a    *)
(* string literal and in prose.  The responses have no white space, no     *)
(* backslash and no code fence.  What the prose says is a separate input:  *)
(* the keywords the fallbacks of the function search the response for.     *)

\* Longest response.
MaxLen == 4

Chars == {"{", "}", "[", "]", "\"", ",", ":", "1"}

Responses == SeqsUpTo(Chars, MaxLen)

\* The index after the string literal that starts at i, or 0.
RECURSIVE StringEnd(_, _)
StringEnd(s, i) ==
  IF i > Len(s) THEN 0
  ELSE IF s[i] = "\"" THEN i + 1
  ELSE StringEnd(s, i + 1)

\* The index after the number that starts at i.
RECURSIVE NumberEnd(_, _)
NumberEnd(s, i) ==
  IF i <= Len(s) /\ s[i] = "1" THEN NumberEnd(s, i + 1) ELSE i

\* The index after the JSON value that starts at i, or 0 when there is none;
\* Nested(s, i, closer) is the same for the elements of an array or the
\* members of an object, up to and including the closer.
RECURSIVE ValueEnd(_, _), Nested(_, _, _)
ValueEnd(s, i) ==
  IF i > Len(s) THEN 0
  ELSE IF s[i] = "1" THEN NumberEnd(s, i)
  ELSE IF s[i] = "\"" THEN StringEnd(s, i + 1)
  ELSE IF s[i] = "[" THEN
    IF i < Len(s) /\ s[i + 1] = "]" THEN i + 2 ELSE Nested(s, i + 1, "]")
  ELSE IF s[i] = "{" THEN
    IF i < Len(s) /\ s[i + 1] = "}" THEN i + 2 ELSE Nested(s, i + 1, "}")
  ELSE 0

Nested(s, i, closer) ==
  LET k == IF closer = "]" THEN i
           ELSE IF i <= Len(s) /\ s[i] = "\"" THEN StringEnd(s, i + 1) ELSE 0
      v == IF closer = "]" THEN i
           ELSE IF k > 0 /\ k <= Len(s) /\ s[k] = ":" THEN k + 1 ELSE 0
      j == IF v = 0 THEN 0 ELSE ValueEnd(s, v)
  IN  IF j = 0 \/ j > Len(s) THEN 0
      ELSE IF s[j] = "," THEN Nested(s, j + 1, closer)
      ELSE IF s[j] = closer THEN j + 1
      ELSE 0

\* JSON.parse(s): the value of the document, or a SyntaxError.
jsonParse(s) ==
  IF ValueEnd(s, 1) = Len(s) + 1
  THEN [ok |-> TRUE, value |-> [kind |-> "parsed", text |-> s]]
  ELSE [ok |-> FALSE, value |-> [kind |-> "none"]]

\* A JSON.parse whose SyntaxError nothing catches.
ParseUnguarded(s) ==
  LET r == jsonParse(s) IN [ok |-> r.ok, value |-> r.value, threw |-> ~r.ok]

\* try { ... JSON.parse(s) ... } catch { ... }: the SyntaxError is caught.
tryParse(s) ==
  LET r == jsonParse(s) IN [ok |-> r.ok, value |-> r.value, threw |-> FALSE]

Count(s, c) == Cardinality({i \in 1..Len(s) : s[i] = c})

Repeat(c, n) == [i \in 1..n |-> c]

\* The index of the last quote of s (s has one).
lastQuoteIndex(s) == CHOOSE i \in 1..Len(s) : s[i] = "\"" /\ \A j \in (i + 1)..Len(s) : s[j] # "\""

\* An odd number of quotes: the text is cut after its last quote and a quote
\* is added.
closeString(s) ==
  IF Count(s, "\"") % 2 # 0
  THEN Append(SubSeq(s, 1, lastQuoteIndex(s)), "\"")
  ELSE s

\* The missing closers are added: the square brackets first, then the braces.
closeBrackets(s) ==
  LET openBrackets == Count(s, "[") - Count(s, "]")
      openBraces == Count(s, "{") - Count(s, "}")
  IN  s \o Repeat("]", IF openBrackets > 0 THEN openBrackets ELSE 0)
        \o Repeat("}", IF openBraces > 0 THEN openBraces ELSE 0)

\* s.replace(/,\s*X/g, 'X') for a closer X
dropCommaBefore(s, closer) ==
  LET keep == {i \in 1..Len(s) : ~(s[i] = "," /\ i < Len(s) /\ s[i + 1] = closer)}
      nth(n) == CHOOSE i \in keep : Cardinality({j \in keep : j < i}) = n - 1
  IN  [n \in 1..Cardinality(keep) |-> s[nth(n)]]

\* The repair of a response that did not parse.
repairJson(s) == dropCommaBefore(dropCommaBefore(closeBrackets(closeString(s)), "}"), "]")

\* What the fallbacks search the response for, and the combinations tried.
Keywords ==
  {"isContradiction", "contradictions", "contr_ id", "chunkId and analysis",
   "analysis object", "malformed analysis object", "chunkId object"}
KeywordSets ==
  {{}, {"isContradiction"}, {"contradictions"}, {"contradictions", "contr_ id"},
   {"chunkId and analysis"}, {"chunkId and analysis", "analysis object"},
   {"chunkId and analysis", "malformed analysis object"}, {"chunkId object"}}

\* A match of analysisPattern that is a JSON object, and one that is not.
AnalysisObject == <<"{", "\"", "1", "\"", ":", "\"", "1", "\"", "}">>
MalformedAnalysisObject == <<"{", "1", "\"", "1", "\"", ":", "\"", "1", "\"", "}">>

\* A match of /{[^}]*"chunkId"[^}]*}/ followed by ', "analysis": []}'.
PartialWithAnalysis ==
  <<"{", "\"", "1", "\"", ":", "1", "}", ",", "\"", "1", "\"", ":", "[", "]", "}">>

Returns(value) == [called |-> TRUE, threw |-> FALSE, value |-> value]
Throws == [called |-> TRUE, threw |-> TRUE, value |-> [kind |-> "none"]]

\* The fallbacks after the second parse has failed.
fallback(found) ==
  LET objectText == IF "analysis object" \in found THEN AnalysisObject
                    ELSE MalformedAnalysisObject
      matched == {"analysis object", "malformed analysis object"} \cap found # {}
      object == tryParse(objectText)
      partial == tryParse(PartialWithAnalysis)
  IN  IF "isContradiction" \in found THEN Returns([kind |-> "verification fallback"])
      ELSE IF {"contradictions", "contr_ id"} \subseteq found
      THEN Returns([kind |-> "no contradictions"])
      ELSE IF "chunkId and analysis" \in found /\ matched /\ object.threw THEN Throws
      ELSE IF "chunkId and analysis" \in found /\ matched /\ object.ok
      THEN Returns([kind |-> "recovered objects"])
      ELSE IF "chunkId and analysis" \in found /\ matched
      THEN Returns([kind |-> "recovered ids"])
      ELSE IF "chunkId object" \in found /\ partial.threw THEN Throws
      ELSE IF "chunkId object" \in found /\ partial.ok THEN Returns(partial.value)
      ELSE Returns([kind |-> "failed"])

\* extractJsonFromResponse(rawResponse), for a response in which the keywords
\* of found occur.
extractJsonFromResponse(raw, found) ==
  IF Len(raw) = 0 THEN Returns([kind |-> "empty"])
  ELSE LET first == tryParse(raw)
           second == tryParse(repairJson(raw))
       IN  IF first.threw THEN Throws
           ELSE IF first.ok THEN Returns(first.value)
           ELSE IF second.threw THEN Throws
           ELSE IF second.ok THEN Returns(second.value)
           ELSE fallback(found)

-----------------------------------------------------------------------------
(* Stages 3 to 8 of analyzeContractWithGemini.  Stages 3 and 5 make no     *)
(* model call: they run within the step that ends the stage before them.   *)

MAX_RETRIES == 3
RETRY_DELAYS == <<2000, 5000, 10000>>

\* What the model call of findContradictions can fail with; the last one is the
\* TypeError of reading .contradictions of a response that parsed to null.
TokenError == MkError(TRUE, 400, "invalid_request_error", {"token"})
NullResultError == MkError(FALSE, 0, "undefined", {"Cannot read properties of null"})
ContradictionErrors ==
  {QuotaError, RateError, ServerError, NetworkError, TokenError, NullResultError}

\* What the model call of the final summary can fail with; the last one is an
\* upstream error whose message has two of the substrings the top-level catch
\* looks for.
BlockedError == MkError(TRUE, 400, "undefined", {"Candidate was blocked"})
UpstreamTextError ==
  MkError(TRUE, 500, "undefined", {"Failed to parse", "Resource has been exhausted"})
FinalErrors == {QuotaError, ServerError, BlockedError, NullResultError, UpstreamTextError}

\* A catch block that retries whatever the number of attempts made.
ContradictionsCatchNeverGivesUp(exh, keyUsed, error, retries) ==
  [exhausted |-> exh, retry |-> TRUE, delay |-> 10000]

\* The catch block of findContradictions: the new exhausted set and whether the
\* call is made again (after delay ms).
findContradictionsCatch(exh, keyUsed, error, retries) ==
  LET handled == IF keyUsed # NoKey THEN handleApiError(exh, keyUsed, error)
                 ELSE [retry |-> FALSE, exhausted |-> exh]
      message == ToLowerCase(error.message)
      isNetworkError == {"load failed", "network", "fetch", "connection"} \cap message # {}
      isTokenError == "token" \in message
      shouldRetry == IF isNetworkError THEN TRUE
                     ELSE IF ~handled.retry /\ ~isTokenError THEN TRUE
                     ELSE handled.retry
  IN  [exhausted |-> handled.exhausted,
       retry |-> shouldRetry /\ retries < MAX_RETRIES,
       delay |-> IF retries < Len(RETRY_DELAYS) THEN RETRY_DELAYS[retries + 1] ELSE 10000]

\* A step of the later stages ends in one of these: a model call in flight
\* (pc, key), a delay, or the rejection of the invocation.
StageStep(to, idx, exh, key) ==
  [pc |-> to, index |-> idx, exhausted |-> exh, key |-> key, rejected |-> FALSE,
   message |-> {}, calls4 |-> 0, calls7 |-> 0, delays |-> <<>>, caught |-> NoError,
   result4 |-> "as before", defects |-> [changed |-> FALSE], events |-> <<>>]

\* Stage 7 is announced, then performFinalStructuralAnalysis up to its await:
\* keyPool.getNextKey() is an argument of the call and is not inside any try
\* block of the function.
finalHead(idx, exh) ==
  LET r == getNextKey(keys, idx, exh)
  IN  IF r.ok
      THEN [StageStep("finalCall", r.index, exh, r.key) EXCEPT
              !.calls7 = 1, !.events = <<"stage 7">>]
      ELSE [StageStep("idle", r.index, exh, NoKey) EXCEPT
              !.rejected = TRUE, !.message = KeyPoolError(r.err).message,
              !.events = <<"stage 7">>]

\* What the rules of findStructuralDefects can find in a contract: broken and
\* self references (simple), then cyclic ones, and whether a paragraph has one
\* of the phrases findLogicalDefectsWithAI looks for.
AiDefectLimit == 10
SimpleDefectCounts == {0, AiDefectLimit - 1, AiDefectLimit}
CyclicDefectCounts == {0, 2}

\* findStructuralDefects has resolved: failed tells that its model call, or
\* the draw of a key for it, threw.
defectsResolved(found, calls, failed) ==
  [changed |-> TRUE,
   value |-> [simple |-> found.simple, cyclic |-> found.cyclic,
              suspicious |-> found.suspicious, calls |-> calls, state |-> "resolved",
              failed |-> failed, ruleBased |-> found.simple + found.cyclic]]

\* A findStructuralDefects that asks the model whatever its rules found.
DefectsHeadAlwaysAsks(idx, exh, found) ==
  LET r == getNextKey(keys, idx, exh)
  IN  IF r.ok
      THEN [StageStep("defectsCall", r.index, exh, r.key) EXCEPT
              !.defects = [defectsResolved(found, 1, FALSE) EXCEPT !.value.state = "calling"],
              !.events = <<"stage 5", "stage 6">>]
      ELSE [finalHead(r.index, exh) EXCEPT
              !.defects = defectsResolved(found, 0, TRUE),
              !.events = <<"stage 5", "stage 6">> \o @]

\* A findStructuralDefects whose model call is not awaited: stage 7 begins
\* while the call is in flight.
DefectsHeadDoesNotWait(idx, exh, found) ==
  IF found.simple < AiDefectLimit /\ found.suspicious
  THEN [finalHead(idx, exh) EXCEPT
          !.defects = [defectsResolved(found, 1, FALSE) EXCEPT !.value.state = "calling"],
          !.events = <<"stage 5", "stage 6">> \o @]
  ELSE [finalHead(idx, exh) EXCEPT
          !.defects = defectsResolved(found, 0, FALSE),
          !.events = <<"stage 5", "stage 6">> \o @]

\* Stages 5 and 6 are announced; stage 5, and findStructuralDefects up to its
\* await.  The model is asked when fewer than 10 simple defects were found and
\* some paragraph is suspicious.  An error of getNextKey is caught by
\* findStructuralDefects.
defectsHead(idx, exh, found) ==
  IF found.simple < AiDefectLimit /\ found.suspicious
  THEN LET r == getNextKey(keys, idx, exh)
       IN  IF r.ok
           THEN [StageStep("defectsCall", r.index, exh, r.key) EXCEPT
                   !.defects = [defectsResolved(found, 1, FALSE) EXCEPT
                                  !.value.state = "calling"],
                   !.events = <<"stage 5", "stage 6">>]
           ELSE [finalHead(r.index, exh) EXCEPT
                   !.defects = defectsResolved(found, 0, TRUE),
                   !.events = <<"stage 5", "stage 6">> \o @]
  ELSE [finalHead(idx, exh) EXCEPT
          !.defects = defectsResolved(found, 0, FALSE),
          !.events = <<"stage 5", "stage 6">> \o @]

\* findContradictions from its try block on, up to its await.
contradictionsHead(idx, exh, retries, found) ==
  LET r == getNextKey(keys, idx, exh)
  IN  IF r.ok
      THEN [StageStep("contradictionsCall", r.index, exh, r.key) EXCEPT !.calls4 = 1]
      ELSE LET c == findContradictionsCatch(exh, NoKey, KeyPoolError(r.err), retries)
           IN  IF c.retry
               THEN [StageStep("contradictionsDelay", r.index, c.exhausted, NoKey) EXCEPT
                       !.delays = <<c.delay>>, !.caught = KeyPoolError(r.err)]
               ELSE [defectsHead(r.index, c.exhausted, found) EXCEPT !.result4 = "empty"]

\* The step is taken.
Take(step) ==
  /\ currentIndex' = step.index
  /\ exhaustedKeys' = step.exhausted
  /\ stageKey' = step.key
  /\ contraCalls' = contraCalls + step.calls4
  /\ finalCalls' = finalCalls + step.calls7
  /\ contraDelays' = contraDelays \o step.delays
  /\ caughtError' = step.caught
  /\ contradictionsResult' = IF step.result4 = "as before" THEN contradictionsResult
                             ELSE step.result4
  /\ structuralDefects' = IF step.defects.changed THEN step.defects.value
                          ELSE structuralDefects
  /\ stageEvents' = stageEvents \o step.events
  /\ IF step.rejected
     THEN Reject(step.message)
     ELSE pc' = step.pc /\ outcome' = outcome
  /\ UNCHANGED <<toolVars, keys, logVars, totalChunks, batchI, batchSize, results, processedChunks,
                 lastPercent, tasks, chunkResults, startedExhausted, completionOrder,
                 structuralResult, serviceVars>>

\* The values of an input that can be TRUE only for a contract with paragraphs.
WhenParagraphs == IF totalChunks > 0 THEN BOOLEAN ELSE {FALSE}

\* What the rules can find: nothing in a contract without paragraphs.
RuleFindings ==
  IF totalChunks > 0
  THEN [simple : SimpleDefectCounts, cyclic : CyclicDefectCounts, suspicious : BOOLEAN]
  ELSE {[simple |-> 0, cyclic |-> 0, suspicious |-> FALSE]}

\* Stage 3 (the cleanup of the chunk results and the requirement gaps), then
\* findContradictions, which returns at once when fewer than 3 paragraphs were
\* classified.
Stage3 ==
  /\ pc = "stage3"
  /\ retryCount' = 0
  /\ \E enough \in WhenParagraphs, found \in RuleFindings :
       Take([(IF enough THEN contradictionsHead(currentIndex, exhaustedKeys, 0, found)
              ELSE [defectsHead(currentIndex, exhaustedKeys, found) EXCEPT
                      !.result4 = "empty"])
             EXCEPT !.events = <<"stage 3", "stage 4">> \o @])

\* The model call of findContradictions returns: the contradictions are kept.
ContradictionsCallSucceeds ==
  /\ pc = "contradictionsCall"
  /\ retryCount' = retryCount
  /\ \E found \in RuleFindings :
       Take([defectsHead(currentIndex, exhaustedKeys, found) EXCEPT
               !.result4 = "contradictions"])

\* The model call of findContradictions fails.
ContradictionsCallFails ==
  /\ pc = "contradictionsCall"
  /\ retryCount' = retryCount
  /\ \E e \in ContradictionErrors, found \in RuleFindings :
       LET c == findContradictionsCatch(exhaustedKeys, stageKey, e, retryCount)
       IN  Take(IF c.retry
                THEN [StageStep("contradictionsDelay", currentIndex, c.exhausted, NoKey)
                        EXCEPT !.delays = <<c.delay>>, !.caught = e]
                ELSE [defectsHead(currentIndex, c.exhausted, found) EXCEPT
                        !.result4 = "empty"])

\* The delay is over: findContradictions calls itself with retryCount + 1.
ContradictionsRetry ==
  /\ pc = "contradictionsDelay"
  /\ retryCount' = retryCount + 1
  /\ \E found \in RuleFindings :
       Take(contradictionsHead(currentIndex, exhaustedKeys, retryCount + 1, found))

\* The model call of findLogicalDefectsWithAI returns or fails: a failure is
\* handed to handleApiError and gives no defects.
DefectsCallReturns ==
  /\ pc = "defectsCall"
  /\ retryCount' = retryCount
  /\ \/ Take([finalHead(currentIndex, exhaustedKeys) EXCEPT
                 !.defects = defectsResolved(structuralDefects, 1, FALSE)])
     \/ \E e \in ChunkErrors :
          Take([finalHead(currentIndex, handleApiError(exhaustedKeys, stageKey, e).exhausted)
                  EXCEPT !.defects = defectsResolved(structuralDefects, 1, TRUE)])

\* The contents the final summary can come back with: nothing, an object, an
\* object cut short that the repair completes, one that it does not, prose.
FinalContents ==
  {<<>>, <<"{", "}">>, <<"{">>, <<"[", "{">>, <<"1", ":">>}

\* The response, or its repair, parsed: the value is the model's document.
isDocument(content) ==
  Len(content) > 0 /\ (jsonParse(content).ok \/ jsonParse(repairJson(content)).ok)

\* structuralResult.structuralAnalysis || { overallAssessment: "Анализ выполнен", ... }
\* where withAnalysis tells that the model's document has the field.
finalStructuralAnalysis(content, withAnalysis) ==
  IF isDocument(content) /\ content[1] = "{" /\ withAnalysis THEN "of the model" ELSE "default"

\* The model call of the final summary returns: extractJsonFromResponse takes
\* the content, and stage 8 builds the report.
FinalCallSucceeds ==
  /\ pc = "finalCall"
  /\ \E content \in FinalContents, found \in {{}, {"chunkId object"}}, withAnalysis \in BOOLEAN :
       LET result == extractJsonFromResponse(content, found)
       IN  /\ found # {} => \E i \in 1..Len(content) : content[i] = "1"
           /\ withAnalysis => isDocument(content) /\ content[1] = "{"
           /\ IF result.threw
              THEN /\ Reject({"Failed to parse"})
                   /\ stageEvents' = stageEvents
                   /\ structuralResult' =
                        [answered |-> TRUE, content |-> content, value |-> result.value,
                         structuralAnalysis |-> "none"]
              ELSE /\ pc' = "idle"
                   /\ outcome' = [state |-> "resolved", message |-> NoMessage, caught |-> {}]
                   /\ stageEvents' = stageEvents \o <<"stage 8", "done">>
                   /\ structuralResult' =
                        [answered |-> TRUE, content |-> content, value |-> result.value,
                         structuralAnalysis |-> finalStructuralAnalysis(content, withAnalysis)]
  /\ stageKey' = NoKey
  /\ UNCHANGED <<toolVars, poolVars, logVars, totalChunks, batchI, batchSize, results, processedChunks,
                 lastPercent, tasks, chunkResults, startedExhausted, completionOrder, retryCount,
                 contraCalls, contraDelays, caughtError, contradictionsResult,
                 structuralDefects, finalCalls, serviceVars>>

\* The model call of the final summary fails, or its response parses to null:
\* nothing catches the error before the top-level catch.
FinalCallFails ==
  /\ pc = "finalCall"
  /\ \E e \in FinalErrors : Reject(e.message)
  /\ stageKey' = NoKey
  /\ UNCHANGED <<toolVars, poolVars, logVars, totalChunks, batchI, batchSize, results, processedChunks,
                 lastPercent, tasks, chunkResults, startedExhausted, completionOrder, retryCount,
                 contraCalls, contraDelays, caughtError, contradictionsResult,
                 structuralDefects, finalCalls, structuralResult, stageEvents, serviceVars>>

Next ==
  \/ StartAnalysis
  \/ LaunchBatch
  \/ ChunkCallSucceeds
  \/ ChunkCallFails
  \/ ChunkRetry
  \/ BatchSucceeds
  \/ BatchFails
  \/ NextBatch
  \/ ChunksDone
  \/ Stage3
  \/ ContradictionsCallSucceeds
  \/ ContradictionsCallFails
  \/ ContradictionsRetry
  \/ DefectsCallReturns
  \/ FinalCallSucceeds
  \/ FinalCallFails

Spec == InitPipeline /\ [][Next]_vars

\* The steps of a running invocation: the event loop runs every continuation
\* and timer that is due, and every model call returns or fails.
Progress ==
  \/ LaunchBatch
  \/ ChunkCallSucceeds
  \/ ChunkCallFails
  \/ ChunkRetry
  \/ BatchSucceeds
  \/ BatchFails
  \/ NextBatch
  \/ ChunksDone
  \/ Stage3
  \/ ContradictionsCallSucceeds
  \/ ContradictionsCallFails
  \/ ContradictionsRetry
  \/ DefectsCallReturns
  \/ FinalCallSucceeds
  \/ FinalCallFails

FairSpec == InitPipeline /\ [][Next]_vars /\ WF_vars(Progress)

-----------------------------------------------------------------------------
(* createChunksWithTokens.  A text is the sequence of the lengths of its   *)
(* sentences, each ended by a full stop and separated from the next by a   *)
(* space; the text of an overlap paragraph starts with the marker.         *)

\* Largest number of paragraphs of a contract.
MaxParagraphs == 7

\* The length of the marker createOverlapText puts before the sentences.
MarkerLength == 33

\* A chunk that is closed one paragraph later.
OneParagraphMore == 6 + 1

AVERAGE_CHARS_PER_TOKEN == 4

maxParagraphsPerChunk == 6

\* The sentences of the paragraph texts: none, one short, two long.
SentenceLists == {<<>>, <<3>>, <<30, 30>>}

\* The budgets and the overlap counts of the runs.
TokenBudgets == {20, 600}
OverlapCounts == {0, 1, 2}

PlainText(sentences) == [marker |-> FALSE, sentences |-> sentences]

\* The paragraph lists splitIntoSpans can hand over: ids p1, p2, ... in order.
ParagraphLists ==
  UNION {[1..n -> SentenceLists] : n \in 0..MaxParagraphs}

\* Longer lists of one-sentence paragraphs, for chunks that are closed for
\* their paragraph count after they were opened with an overlap paragraph.
MaxLongParagraphs == 12

LongParagraphLists ==
  {[j \in 1..n |-> <<3>>] : n \in (MaxParagraphs + 1)..MaxLongParagraphs}

ParagraphsOf(texts) ==
  [j \in 1..Len(texts) |-> [id |-> [prefix |-> "p", n |-> j], text |-> PlainText(texts[j])]]

RECURSIVE SumLengths(_)
SumLengths(sentences) ==
  IF sentences = <<>> THEN 0
  ELSE Head(sentences) + 1 + SumLengths(Tail(sentences))

\* text.length
textLength(text) ==
  (IF text.marker THEN MarkerLength ELSE 0)
  + SumLengths(text.sentences)
  + (IF Len(text.sentences) > 1 THEN Len(text.sentences) - 1 ELSE 0)

\* Math.ceil(text.length / AVERAGE_CHARS_PER_TOKEN)
countTokens(text) ==
  (textLength(text) + AVERAGE_CHARS_PER_TOKEN - 1) \div AVERAGE_CHARS_PER_TOKEN

\* sentences.slice(-count): the whole array when count is 0.
sliceLast(sentences, count) ==
  IF count = 0 \/ count >= Len(sentences) THEN sentences
  ELSE SubSeq(sentences, Len(sentences) - count + 1, Len(sentences))

\* getLastSentences(text, count): the text split at its full stops, the last
\* count sentences of it, each trimmed and ended by a full stop again.
getLastSentences(text, count) == sliceLast(text.sentences, count)

\* createOverlapText(sentences), for a non-empty list
createOverlapText(sentences) == [marker |-> TRUE, sentences |-> sentences]

\* An overlap paragraph that carries the id of a paragraph.
OverlapWithParagraphId(sentences, n) ==
  [id |-> [prefix |-> "p", n |-> n], text |-> createOverlapText(sentences)]

\* The paragraph pushed at the head of chunk n: id overlap_n.
overlapParagraph(sentences, n) ==
  [id |-> [prefix |-> "overlap", n |-> n], text |-> createOverlapText(sentences)]

InitChunker ==
  /\ ServiceIdle
  /\ keys = <<"k1">>
  /\ currentIndex = 0
  /\ exhaustedKeys = {}
  /\ poolLog = <<>>
  /\ poolLast = NoCall
  /\ PipelineIdle
  /\ RepairIdle
  /\ CleanupIdle
  /\ RulesIdle
  /\ \E texts \in ParagraphLists \cup LongParagraphLists : paragraphs = ParagraphsOf(texts)
  /\ maxTokensPerChunk \in TokenBudgets
  /\ overlapSentences \in OverlapCounts
  /\ loopI = 0
  /\ chunks = <<>>
  /\ currentChunk = <<>>
  /\ currentTokenCount = 0
  /\ previousChunkSentences = <<>>
  /\ chunksReturned = FALSE

\* One iteration of the loop over the paragraphs.
ChunkerStep ==
  /\ ~chunksReturned
  /\ loopI < Len(paragraphs)
  /\ LET paragraph == paragraphs[loopI + 1]
         paragraphTokens == countTokens(paragraph.text)
         overlapTokens == IF Len(previousChunkSentences) > 0
                          THEN countTokens(createOverlapText(previousChunkSentences))
                          ELSE 0
         overflow == /\ \/ currentTokenCount + paragraphTokens + overlapTokens > maxTokensPerChunk
                        \/ Len(currentChunk) >= maxParagraphsPerChunk
                     /\ Len(currentChunk) > 0
         lastSentences == getLastSentences(currentChunk[Len(currentChunk)].text, overlapSentences)
         closed == Append(chunks, [id |-> Len(chunks) + 1, paragraphs |-> currentChunk,
                                   tokenCount |-> currentTokenCount, hasOverlap |-> FALSE])
         opened == IF Len(lastSentences) > 0
                   THEN <<overlapParagraph(lastSentences, Len(closed) + 1)>>
                   ELSE <<>>
         openedTokens == IF Len(lastSentences) > 0
                         THEN countTokens(createOverlapText(lastSentences))
                         ELSE 0
     IN  IF overflow
         THEN /\ previousChunkSentences' = lastSentences
              /\ chunks' = closed
              /\ currentChunk' = Append(opened, paragraph)
              /\ currentTokenCount' = openedTokens + paragraphTokens
         ELSE /\ previousChunkSentences' = previousChunkSentences
              /\ chunks' = chunks
              /\ currentChunk' = Append(currentChunk, paragraph)
              /\ currentTokenCount' = currentTokenCount + paragraphTokens
  /\ loopI' = loopI + 1
  /\ UNCHANGED <<poolVars, logVars, pipeVars, repairVars, cleanupVars, ruleVars, spanVars,
                 paragraphs,
                 maxTokensPerChunk, overlapSentences, chunksReturned, serviceVars>>

\* The loop is over: the last chunk is pushed if it is not empty, and the
\* chunks are returned.
ChunkerReturn ==
  /\ ~chunksReturned
  /\ loopI = Len(paragraphs)
  /\ chunks' = IF Len(currentChunk) > 0
               THEN Append(chunks, [id |-> Len(chunks) + 1, paragraphs |-> currentChunk,
                                    tokenCount |-> currentTokenCount,
                                    hasOverlap |-> Len(previousChunkSentences) > 0])
               ELSE chunks
  /\ chunksReturned' = TRUE
  /\ UNCHANGED <<poolVars, logVars, pipeVars, repairVars, cleanupVars, ruleVars, spanVars,
                 paragraphs,
                 maxTokensPerChunk, overlapSentences, loopI, currentChunk, currentTokenCount,
                 previousChunkSentences, serviceVars>>

NextChunker == ChunkerStep \/ ChunkerReturn

SpecChunker == InitChunker /\ [][NextChunker]_vars

-----------------------------------------------------------------------------
(* extractJsonFromResponse on its own: one call on a response.            *)

InitRepair ==
  /\ ServiceIdle
  /\ keys = <<"k1">>
  /\ currentIndex = 0
  /\ exhaustedKeys = {}
  /\ poolLog = <<>>
  /\ poolLast = NoCall
  /\ PipelineIdle
  /\ ChunkerIdle
  /\ CleanupIdle
  /\ RulesIdle
  /\ rawResponse \in Responses
  /\ extracted = NotExtracted

\* extractJsonFromResponse is called on the response.  Keywords occur only in
\* a response with characters other than the structural ones.
ExtractJson ==
  /\ ~extracted.called
  /\ \E found \in KeywordSets :
       /\ found # {} => \E i \in 1..Len(rawResponse) : rawResponse[i] = "1"
       /\ extracted' = extractJsonFromResponse(rawResponse, found)
  /\ UNCHANGED <<poolVars, logVars, pipeVars, chunkerVars, cleanupVars, ruleVars, spanVars,
                 rawResponse, serviceVars>>

NextRepair == ExtractJson

SpecRepair == InitRepair /\ [][NextRepair]_vars

-----------------------------------------------------------------------------
(* The cleanup of the analysis items in stage 3 of analyzeContractWithGemini *)
(* and the paragraphs of the report built from them in stage 8.             *)

\* Largest number of analysis items the model returns.
MaxItems == 2

\* The values the model can give the fields of an item.
Categories == {Null, Undef, "", "risk"}
Comments == {Null, "", "text"}
Recommendations == {Null, "text"}
Clauses == {Null, "text"}

\* The items: legalRisk is set only in items with nothing else set.
Items ==
  {[category |-> c, comment |-> m, recommendation |-> r, improvedClause |-> v, legalRisk |-> Null] :
     c \in Categories, m \in Comments, r \in Recommendations, v \in Clauses}
  \cup
  {[category |-> c, comment |-> Null, recommendation |-> Null, improvedClause |-> Null,
    legalRisk |-> "text"] : c \in Categories}

\* The analysis of paragraph j is item j of the list.
AnalysisLists == UNION {[1..n -> Items] : n \in 0..MaxItems}

\* A value that counts as true in a condition.
truthy(v) == v \notin {Null, Undef, ""}

\* v || null
orNull(v) == IF truthy(v) THEN v ELSE Null

\* The callback of chunkResult.analysis.map(...)
cleanItem(item) ==
  IF /\ item.category = Null \/ item.category = Undef
     /\ \/ truthy(item.comment)
        \/ truthy(item.recommendation)
        \/ truthy(item.improvedClause)
        \/ truthy(item.legalRisk)
  THEN [item EXCEPT !.category = "ambiguous"]
  ELSE item

\* The callback of paragraphs.map(...) for paragraph j: allAnalysis.find gives
\* its item, or undefined.
reportParagraph(all, j) ==
  IF j \in DOMAIN all
  THEN [id |-> j,
        category |-> orNull(all[j].category),
        comment |-> orNull(all[j].comment),
        recommendation |-> orNull(all[j].recommendation),
        improvedClause |-> orNull(all[j].improvedClause),
        legalRisk |-> orNull(all[j].legalRisk)]
  ELSE [id |-> j, category |-> Null, comment |-> Null, recommendation |-> Null,
        improvedClause |-> Null, legalRisk |-> Null]

InitCleanup ==
  /\ ServiceIdle
  /\ keys = <<"k1">>
  /\ currentIndex = 0
  /\ exhaustedKeys = {}
  /\ poolLog = <<>>
  /\ poolLast = NoCall
  /\ PipelineIdle
  /\ ChunkerIdle
  /\ RepairIdle
  /\ RulesIdle
  /\ chunkAnalysis \in AnalysisLists
  /\ allAnalysis = <<>>
  /\ contractParagraphs = <<>>
  /\ cleanupStage = "arrived"

\* Stage 3: the items of the chunk results are cleaned and aggregated.
CleanItems ==
  /\ cleanupStage = "arrived"
  /\ allAnalysis' = [j \in DOMAIN chunkAnalysis |-> cleanItem(chunkAnalysis[j])]
  /\ cleanupStage' = "aggregated"
  /\ UNCHANGED <<poolVars, logVars, pipeVars, chunkerVars, repairVars, ruleVars, spanVars,
                 chunkAnalysis,
                 contractParagraphs, serviceVars>>

\* Stage 8: one report paragraph per paragraph of the contract, the last of
\* which the model returned no item for.
BuildReport ==
  /\ cleanupStage = "aggregated"
  /\ contractParagraphs' = [j \in 1..(Len(allAnalysis) + 1) |-> reportParagraph(allAnalysis, j)]
  /\ cleanupStage' = "reported"
  /\ UNCHANGED <<poolVars, logVars, pipeVars, chunkerVars, repairVars, ruleVars, spanVars,
                 chunkAnalysis,
                 allAnalysis, serviceVars>>

NextCleanup == CleanItems \/ BuildReport

SpecCleanup == InitCleanup /\ [][NextCleanup]_vars

-----------------------------------------------------------------------------
(* Properties of the key pool.                                             *)

\* Number of calls strictly between the i-th and the j-th logged getNextKey
\* that returned key k.
ReturnsBetween(i, j, k) == Cardinality({m \in (i + 1)..(j - 1) : poolLog[m].key = k})

\* C3: between two successive returns of the same key by getNextKey, every other
\* key of the pool that is not exhausted throughout is returned exactly once.
C3_CyclesThroughAllKeys ==
  \A i, j \in 1..Len(poolLog) :
    ( /\ i < j
      /\ poolLog[i].key = poolLog[j].key
      /\ ReturnsBetween(i, j, poolLog[i].key) = 0 )
    => \A k \in Range(keys) \ {poolLog[i].key} :
         k \notin poolLog[j].exhausted => ReturnsBetween(i, j, k) = 1

\* C4: getNextKey never returns a key that is exhausted when it is called, and it
\* throws, with the all-keys-exhausted error, exactly when every key of the pool
\* is exhausted.
C4_NeverExhaustedKey ==
  poolLast.op = "getNextKey" =>
    /\ poolLast.ok => /\ poolLast.key \in Range(keys)
                      /\ poolLast.key \notin poolLast.exhaustedBefore
    /\ ~poolLast.ok <=> Range(keys) \subseteq poolLast.exhaustedBefore
    /\ ~poolLast.ok => poolLast.err = "AllKeysExhausted"

\* C4 witness: a call that had to skip an exhausted key was logged, and the last
\* call failed because every key had been exhausted.
C4_Witness ==
  /\ poolLast.op = "getNextKey" /\ ~poolLast.ok
  /\ \E i \in 1..Len(poolLog) :
       /\ poolLog[i].exhausted # {}
       /\ i > 1 => poolLog[i - 1].key # poolLog[i].key

\* The three classes of the claim, read off the error itself.
QuotaExhaustion(e) ==
  e.code = "insufficient_quota" \/ ToLowerCase(e.message) \cap QuotaPhrases # {}
RateLimit(e) ==
  e.status = 429 \/ e.code = "rate_limit_exceeded"
    \/ RateLimitPhrase \in ToLowerCase(e.message)

\* C5: handleApiError(key, error) has exactly one of three outcomes: quota
\* exhaustion adds key to the exhausted set and returns true; a rate limit that
\* is no quota exhaustion returns true and leaves the set alone; any other
\* error returns false and leaves the set alone.
C5_ClassifiesErrors ==
  poolLast.op = "handleApiError" =>
    LET e == poolLast.error
    IN  /\ QuotaExhaustion(e) =>
             /\ poolLast.retry
             /\ exhaustedKeys = poolLast.exhaustedBefore \cup {poolLast.key}
        /\ (RateLimit(e) /\ ~QuotaExhaustion(e)) =>
             /\ poolLast.retry
             /\ exhaustedKeys = poolLast.exhaustedBefore
        /\ (~RateLimit(e) /\ ~QuotaExhaustion(e)) =>
             /\ ~poolLast.retry
             /\ exhaustedKeys = poolLast.exhaustedBefore

\* C5 witness: a rate-limit error, written in another letter case, was handled
\* for a key that is still available afterwards.
C5_Witness ==
  /\ poolLast.op = "handleApiError"
  /\ poolLast.error.message = {"Rate limit"}
  /\ ~QuotaExhaustion(poolLast.error)
  /\ poolLast.retry
  /\ poolLast.key \notin exhaustedKeys


\* C34: in every state of the pool getAvailableKeyCount() is above 0 exactly
\* when a call of getNextKey() would return a key.
C34_CountTellsAvailability ==
  (getAvailableKeyCount(keys, exhaustedKeys) > 0)
  <=> getNextKey(keys, currentIndex, exhaustedKeys).ok

-----------------------------------------------------------------------------
(* Properties of the chunk stage.                                          *)

SomeTask(st) == \E t \in 1..Len(tasks) : tasks[t].st = st

\* C1: once the analysis of a chunk has failed after its retries, no result
\* array is returned to the caller and no later stage runs: the invocation is
\* still waiting for the batch to settle, or it has rejected.
C1_AllOrNothing ==
  SomeTask("rejected") =>
    /\ ~chunkResults.returned
    /\ pc \in {"awaitBatch", "idle"}
    /\ pc = "idle" => outcome.state = "rejected"

\* A chunk failed while a chunk of the same batch and the chunks of an earlier
\* batch had succeeded, and the call rejected.
C1_Witness ==
  /\ pc = "idle"
  /\ outcome.state = "rejected"
  /\ SomeTask("rejected")
  /\ SomeTask("fulfilled")
  /\ batchI > 0
  /\ processedChunks > 1
  /\ ~chunkResults.returned

\* C2: the array processChunksInParallel returns has one entry per chunk and
\* entry i is the analysis of chunks[i].
C2_ResultsInChunkOrder ==
  chunkResults.returned =>
    /\ DOMAIN chunkResults.value = 0..(totalChunks - 1)
    /\ \A j \in 0..(totalChunks - 1) :
         chunkResults.value[j] = [defined |-> TRUE, analysisOf |-> j]

\* The array was returned for a contract of several batches in which a chunk
\* completed before a chunk that precedes it.
C2_Witness ==
  /\ chunkResults.returned
  /\ totalChunks = MaxChunks
  /\ batchSize < totalChunks
  /\ \E a, b \in 1..Len(completionOrder) : a < b /\ completionOrder[a] > completionOrder[b]

\* C6: a chunk has at most maxRetries attempts, each with one getNextKey and at
\* most one model call; the first success ends the loop; after maxRetries failed
\* calls analyzeChunk throws the last error.
C6_AtMostThreeAttempts ==
  \A t \in 1..Len(tasks) :
    LET task == tasks[t]
    IN  /\ task.attempt < maxRetries
        /\ task.calls <= task.attempt + 1
        /\ task.calls <= maxRetries
        /\ task.st = "calling" => task.calls = task.attempt + 1
        /\ task.st = "fulfilled" => task.calls = task.failures + 1 /\ task.calls = task.attempt + 1
        /\ task.failures = maxRetries => task.st = "rejected" /\ task.thrown = task.lastError
        /\ task.st = "rejected" =>
             \/ task.failures = maxRetries
             \/ task.thrown = KeyPoolError("AllKeysExhausted")

\* One chunk failed on all its attempts while another succeeded on its second.
C6_Witness ==
  /\ \E t \in 1..Len(tasks) :
       tasks[t].st = "rejected" /\ tasks[t].failures = maxRetries /\ tasks[t].calls = maxRetries
  /\ \E t \in 1..Len(tasks) :
       tasks[t].st = "fulfilled" /\ tasks[t].failures = 1 /\ tasks[t].calls = 2

\* C7: an invocation that starts with every credential exhausted rejects with
\* the all-keys-exhausted message.
C7_ExhaustedPoolRejects ==
  [](startedExhausted /\ outcome.state = "running" =>
       <>(outcome.state = "rejected" /\ outcome.message.kind = "all keys exhausted"))

-----------------------------------------------------------------------------
(* Properties of the chunker.                                              *)

isSynthetic(paragraph) == paragraph.id.prefix = "overlap"

RECURSIVE RealParagraphs(_)
RealParagraphs(cs) ==
  IF cs = <<>> THEN <<>>
  ELSE SelectSeq(Head(cs).paragraphs, LAMBDA q : ~isSynthetic(q)) \o RealParagraphs(Tail(cs))

\* C9: the paragraphs of the returned chunks, in chunk order and without the
\* overlap paragraphs, are the input paragraphs: none added, lost or moved.
C9_ChunksReconstructInput ==
  chunksReturned => RealParagraphs(chunks) = paragraphs

\* Chunks were returned for the longest contract: one was closed for its
\* paragraph count, and the one after it starts with an overlap paragraph.
C9_Witness ==
  /\ chunksReturned
  /\ Len(paragraphs) = MaxParagraphs
  /\ \E c \in 1..(Len(chunks) - 1) :
       /\ Len(chunks[c].paragraphs) = maxParagraphsPerChunk
       /\ isSynthetic(chunks[c + 1].paragraphs[1])

\* C28: when no input paragraph alone is estimated above maxTokensPerChunk,
\* the tokenCount of every returned chunk, the overlap paragraph included, is
\* at most maxTokensPerChunk.
C28_ChunksWithinBudget ==
  (/\ chunksReturned
   /\ \A j \in 1..Len(paragraphs) : countTokens(paragraphs[j].text) <= maxTokensPerChunk)
  => \A c \in 1..Len(chunks) : chunks[c].tokenCount <= maxTokensPerChunk

\* The sentences of the final paragraph of the chunk before chunk c, and how
\* many of them overlapSentences asks for.
finalSentences(c) ==
  chunks[c - 1].paragraphs[Len(chunks[c - 1].paragraphs)].text.sentences

carriedCount(c) == Min(overlapSentences, Len(finalSentences(c)))

\* C29: every chunk after the first starts with one overlap paragraph, the
\* marker followed by the last min(k, n) sentences of the final paragraph of
\* the chunk before it; where that number is 0 the chunk carries no sentence
\* of the chunk before it.
C29_OverlapIsLastSentences ==
  chunksReturned =>
    \A c \in 2..Len(chunks) :
      LET first == chunks[c].paragraphs[1]
          last == finalSentences(c)
      IN  IF carriedCount(c) = 0
          THEN ~isSynthetic(first) \/ first.text.sentences = <<>>
          ELSE /\ isSynthetic(first)
               /\ first.text.marker
               /\ first.text.sentences =
                    SubSeq(last, Len(last) - carriedCount(c) + 1, Len(last))
               /\ ~isSynthetic(chunks[c].paragraphs[2])

\* C30: the hasOverlap flag of a returned chunk is true exactly when the first
\* paragraph of the chunk is an overlap paragraph.
C30_FlagTellsOverlap ==
  chunksReturned =>
    \A c \in 1..Len(chunks) :
      chunks[c].hasOverlap <=> isSynthetic(chunks[c].paragraphs[1])

\* C31: every returned chunk holds at least one paragraph of the contract and
\* at most 6 paragraphs in all, and the ids of the chunks are chunk_1,
\* chunk_2, ... in the order of the chunks.
C31_ChunksAreWellFormed ==
  chunksReturned =>
    \A c \in 1..Len(chunks) :
      /\ chunks[c].id = c
      /\ Len(chunks[c].paragraphs) <= 6
      /\ \E q \in 1..Len(chunks[c].paragraphs) : ~isSynthetic(chunks[c].paragraphs[q])

\* Three chunks were returned: the second was opened with an overlap
\* paragraph and closed when it held 6 paragraphs.
C31_Witness ==
  /\ chunksReturned
  /\ Len(chunks) = 3
  /\ isSynthetic(chunks[2].paragraphs[1])
  /\ Len(chunks[2].paragraphs) = 6
  /\ chunks[3].id = 3

-----------------------------------------------------------------------------
(* Properties of the JSON repair.                                          *)

\* C8: extractJsonFromResponse returns a value and does not throw.
C8_NeverThrows ==
  extracted.called => ~extracted.threw /\ extracted.value.kind # "none"

\* An array cut inside a string literal was repaired and parsed.
C8_Witness ==
  /\ rawResponse = <<"[", "\"", "1">>
  /\ extracted = Returns([kind |-> "parsed", text |-> <<"[", "\"", "\"", "]">>])

\* The brackets of s that are still open after character i, the innermost
\* last, given those open before it; <<"mismatch">> once a closer did not
\* match the innermost open bracket.  Brackets inside string literals do not
\* count.
RECURSIVE openAfter(_, _, _, _)
openAfter(s, i, open, inString) ==
  IF i > Len(s) \/ open = <<"mismatch">> THEN open
  ELSE IF s[i] = "\"" THEN openAfter(s, i + 1, open, ~inString)
  ELSE IF inString THEN openAfter(s, i + 1, open, inString)
  ELSE IF s[i] \in {"{", "["} THEN openAfter(s, i + 1, Append(open, s[i]), inString)
  ELSE IF s[i] \in {"}", "]"} THEN
    IF open # <<>> /\ open[Len(open)] = (IF s[i] = "}" THEN "{" ELSE "[")
    THEN openAfter(s, i + 1, SubSeq(open, 1, Len(open) - 1), inString)
    ELSE <<"mismatch">>
  ELSE openAfter(s, i + 1, open, inString)

stillOpen(s) == openAfter(s, 1, <<>>, FALSE)

\* The closers of the open brackets, the innermost first.
closersOf(open) ==
  [i \in 1..Len(open) |-> IF open[Len(open) + 1 - i] = "{" THEN "}" ELSE "]"]

\* What a cut document lacks before its closers: nothing, a value, a colon
\* and a value, or a member.
Fillers == {<<>>, <<"1">>, <<":", "1">>, <<"\"", "\"", ":", "1">>}

\* s is a well-formed JSON document cut short outside a string literal.
IsCutDocument(s) ==
  /\ Len(s) > 0
  /\ Count(s, "\"") % 2 = 0
  /\ ~jsonParse(s).ok
  /\ stillOpen(s) # <<"mismatch">>
  /\ \E filler \in Fillers : jsonParse(s \o filler \o closersOf(stillOpen(s))).ok

\* Every closer of s closes the innermost open bracket, and none stays open.
ProperlyNested(s) == stillOpen(s) = <<>>

\* C33: for a JSON document cut short outside a string literal the repair of
\* extractJsonFromResponse adds the missing closers so that the result is
\* balanced and properly nested.
C33_RepairClosesInnermostFirst ==
  (extracted.called /\ IsCutDocument(rawResponse))
  => ProperlyNested(repairJson(rawResponse))

-----------------------------------------------------------------------------
(* Properties of the cleanup.                                              *)

isNull(v) == v \in {Null, Undef}

\* category is null while comment or recommendation is not.
NullWithComments(item) ==
  isNull(item.category) /\ (~isNull(item.comment) \/ ~isNull(item.recommendation))

\* C10, as a whole: after the cleanup every item that arrived with a null category and a
\* comment or recommendation is 'ambiguous', no aggregated item and no report
\* paragraph has a null category with a comment or recommendation, and the
\* other items are as they arrived.
C10_NullCategoryHasNoComment ==
  cleanupStage \in {"aggregated", "reported"} =>
    /\ \A j \in DOMAIN chunkAnalysis :
         IF NullWithComments(chunkAnalysis[j])
         THEN allAnalysis[j].category = "ambiguous"
         ELSE allAnalysis[j] = chunkAnalysis[j]
    /\ \A j \in DOMAIN allAnalysis : ~NullWithComments(allAnalysis[j])
    /\ \A j \in DOMAIN contractParagraphs : ~NullWithComments(contractParagraphs[j])

\* C10, for the report: no paragraph of the returned report has category null
\* with a non-null comment or recommendation (the count the code logs as
\* nullWithComments is 0).
C10_ReportNullWithComments ==
  \A j \in DOMAIN contractParagraphs : ~NullWithComments(contractParagraphs[j])

-----------------------------------------------------------------------------
(* Properties of the stages after the chunk stage.                         *)

\* C11: when the first model call of findContradictions fails with a quota
\* error, no retry is announced on onProgress and none is waited for.
C11_QuotaErrorNotRetried ==
  ~(pc = "contradictionsDelay" /\ retryCount = 0 /\ isQuotaExhausted(caughtError))

\* The pipeline is past findContradictions.
AfterContradictions ==
  pc \in {"defectsCall", "finalCall"} \/ (pc = "idle" /\ chunkResults.returned)

\* C12: findContradictions issues at most MAX_RETRIES + 1 model calls, waits
\* 2 s, 5 s and 10 s before its retries, and always resolves: when the pipeline
\* goes on, or rejects later, it has the contradictions or the empty result.
C12_ContradictionsBestEffort ==
  /\ contraCalls <= MAX_RETRIES + 1
  /\ retryCount <= MAX_RETRIES
  /\ Len(contraDelays) = retryCount + (IF pc = "contradictionsDelay" THEN 1 ELSE 0)
  /\ contraDelays = SubSeq(RETRY_DELAYS, 1, Len(contraDelays))
  /\ AfterContradictions => contradictionsResult \in {"contradictions", "empty"}
  /\ ~AfterContradictions => contradictionsResult = "none"

\* Four model calls failed, the three delays were waited, and the pipeline went
\* on to the final summary with the empty result.
C12_Witness ==
  /\ pc = "finalCall"
  /\ contraCalls = MAX_RETRIES + 1
  /\ contraDelays = RETRY_DELAYS
  /\ contradictionsResult = "empty"

\* The chunk analyses in flight: started and not settled.
InFlight(ts) == Cardinality({t \in 1..Len(ts) : ts[t].st \in {"calling", "sleeping"}})

\* The chunks whose analysis a step starts.
ChunksOf(ts) == {ts[t].chunk : t \in 1..Len(ts)}

\* The available credential count the pool reports: its keys less the marks.
ReportedAvailable == Len(keys) - Cardinality(exhaustedKeys)

KnownSubstrings ==
  << [phrases |-> {"Candidate was blocked"}, kind |-> "blocked"],
     [phrases |-> {AllKeysExhaustedPhrase}, kind |-> "all keys exhausted"],
     [phrases |-> {"Resource has been exhausted"}, kind |-> "request limit"],
     [phrases |-> {"ne udalos rasparsit", "Failed to parse"}, kind |-> "parse"] >>

\* C17: a rejected invocation throws the fixed message of the first known
\* substring its error has or, when it has none, the generic prefix followed by
\* the message of the error; never the error itself.
C17_ErrorsAreTranslated ==
  outcome.state = "rejected" =>
    LET matching == {n \in 1..Len(KnownSubstrings) :
                       KnownSubstrings[n].phrases \cap outcome.caught # {}}
    IN  IF matching = {}
        THEN outcome.message = [kind |-> "generic", original |-> outcome.caught]
        ELSE LET first == CHOOSE n \in matching : \A m \in matching : n <= m
             IN  outcome.message = [kind |-> KnownSubstrings[first].kind, original |-> {}]

\* An error with two known substrings was thrown as the request-limit message,
\* the earlier of the two in the order of the catch block.
C17_Witness ==
  /\ outcome.state = "rejected"
  /\ {"Failed to parse", "Resource has been exhausted"} \subseteq outcome.caught
  /\ outcome.message.kind = "request limit"

\* The pipeline is past findStructuralDefects.
AfterDefects == pc = "finalCall" \/ (pc = "idle" /\ contradictionsResult # "none")

FinalStageStarted == structuralDefects.state = "resolved"

\* The response of the final summary arrived, and neither it nor its repair
\* is a JSON document.
UnparsableSummary == structuralResult.answered /\ ~isDocument(structuralResult.content)

\* An unparsable response ends in the report with the default analysis.
FallbackIsUsed ==
  UnparsableSummary =>
    /\ outcome.state = "resolved"
    /\ structuralResult.structuralAnalysis = "default"

\* C35 as stated: the final summary stage issues exactly one model call and
\* does not retry it, and a response that cannot be parsed does not fail the
\* invocation: the report carries the default structural analysis.
C35_OneFinalCall ==
  /\ FinalStageStarted => finalCalls = 1
  /\ FallbackIsUsed

\* C35 amended: the stage issues one model call, or none when every key is
\* exhausted as it draws its key, and then the invocation is rejected with the
\* all-keys-exhausted error.
C35_OneFinalCallIfAKeyIsLeft ==
  /\ finalCalls <= 1
  /\ FinalStageStarted =>
       \/ finalCalls = 1
       \/ /\ Range(keys) \subseteq exhaustedKeys
          /\ outcome.state = "rejected"
          /\ outcome.message.kind = "all keys exhausted"
  /\ FallbackIsUsed

\* The final summary came back as a document cut short that the repair does
\* not complete; the invocation resolved with the default analysis after one
\* call.
C35_Witness ==
  /\ structuralResult.answered
  /\ structuralResult.content = <<"[", "{">>
  /\ structuralResult.value.kind = "failed"
  /\ structuralResult.structuralAnalysis = "default"
  /\ outcome.state = "resolved"
  /\ finalCalls = 1

\* The progress events of analyzeContractWithGemini in the order of the
\* stages: segmentation, chunk analysis, requirement gaps, contradictions,
\* rights, structural defects, final summary, then the assembly of the report
\* and the completion event.
StageOrder ==
  <<"stage 1", "stage 2", "stage 3", "stage 4", "stage 5", "stage 6", "stage 7", "stage 8",
    "done">>

Begun(stage) == stage \in Range(stageEvents)

\* C36: the stages start in the fixed order, each after the one before it has
\* finished: stage 3 starts when the chunk stage has returned and no chunk
\* analysis is in flight, no model call of stages 4 to 7 is in flight
\* together with a chunk analysis, stage 7 does not start while the model call
\* of stage 6 is in flight; the completion event is emitted only by an
\* invocation that resolves, and no progress event follows it.
C36_StagesRunInOrder ==
  /\ [](\E n \in 0..Len(StageOrder) : stageEvents = SubSeq(StageOrder, 1, n))
  /\ [](Begun("stage 3") => chunkResults.returned /\ InFlight(tasks) = 0)
  /\ [](stageKey # NoKey => InFlight(tasks) = 0)
  /\ [](Begun("stage 7") => structuralDefects.state = "resolved")
  /\ [](Begun("done") => outcome.state = "resolved" /\ pc = "idle")
  /\ [][Begun("done") =>
          \/ UNCHANGED <<stageEvents, lastPercent, contraDelays, serviceVars>>
          \/ pc' = "batchHead" /\ ~Begun("done")']_vars

\* An invocation resolved after a contract of two chunks went through every
\* stage: the models of stages 4 and 6 were asked, and the nine events were
\* emitted.
C36_Witness ==
  /\ outcome.state = "resolved"
  /\ stageEvents = StageOrder
  /\ totalChunks = 2
  /\ contraCalls = 1
  /\ structuralDefects.calls = 1

\* A key is handed to chunk task t in this step, and task t reports a quota
\* error of its model call in this step.
SameTask(t) == t \in DOMAIN tasks /\ tasks[t].chunk = tasks'[t].chunk
HandedOut(t) ==
  /\ tasks'[t].st = "calling"
  /\ ~SameTask(t) \/ tasks[t].calls < tasks'[t].calls
ReportsQuota(t) ==
  /\ SameTask(t)
  /\ tasks[t].st = "calling"
  /\ tasks'[t].failures > tasks[t].failures
  /\ QuotaExhaustion(tasks'[t].lastError)

\* C22: whatever the order in which the chunk tasks of a batch go on at their
\* awaits, the cursor of the pool stays within 0..N-1, no key leaves the
\* exhausted set, the key of a task that reports a quota error is in the set
\* from then on, and no key of the set is handed out, to a chunk task or to a
\* later stage, in this analysis or a later one.
C22_PoolSurvivesInterleaving ==
  /\ [](currentIndex \in 0..(Len(keys) - 1))
  /\ [][/\ exhaustedKeys \subseteq exhaustedKeys'
        /\ \A t \in DOMAIN tasks' :
             /\ ReportsQuota(t) => tasks[t].key \in exhaustedKeys'
             /\ HandedOut(t) => tasks'[t].key \notin exhaustedKeys \cup exhaustedKeys'
        /\ (stageKey' # stageKey /\ stageKey' # NoKey) => stageKey' \notin exhaustedKeys]_vars

\* Two tasks of a batch are in flight; one of them reported a quota error of
\* "k1" and was given "k2" for its second attempt.
C22_Witness ==
  /\ keys = <<"k1", "k2">>
  /\ exhaustedKeys = {"k1"}
  /\ \E t, u \in DOMAIN tasks :
       /\ t # u
       /\ tasks[t].st = "calling" /\ tasks[t].attempt = 1 /\ tasks[t].key = "k2"
       /\ QuotaExhaustion(tasks[t].lastError)
       /\ tasks[u].st = "calling"

\* processChunksInParallel has been called and has neither returned nor thrown.
InChunkStage == pc \in {"batchHead", "awaitBatch", "batchDelay"}

\* C23: every call of processChunksInParallel returns or throws, whatever the
\* chunks and the state of the pool at its start.
C23_ChunkStageTerminates == InChunkStage ~> ~InChunkStage

\* An error that is neither of the two classes handleApiError retries.
NonRetryable(e) == e # NoError /\ ~QuotaExhaustion(e) /\ ~RateLimit(e)

\* The call of attempt 1 or 2 of task t fails in this step with such an error,
\* and task t, which waits after such an error, goes on in this step.
FailsNonRetryable(t) ==
  /\ SameTask(t)
  /\ tasks[t].st = "calling"
  /\ tasks[t].attempt < maxRetries - 1
  /\ tasks'[t].failures > tasks[t].failures
  /\ NonRetryable(tasks'[t].lastError)
WakesAfterNonRetryable(t) ==
  /\ SameTask(t)
  /\ tasks[t].st = "sleeping"
  /\ NonRetryable(tasks[t].lastError)
  /\ tasks'[t] # tasks[t]
BacksOff(t) ==
  /\ tasks'[t].st = "sleeping"
  /\ tasks'[t].delay = 1000 * (tasks[t].attempt + 1)
NextAttemptIsMade(t) ==
  /\ tasks'[t].st = "calling"
  /\ tasks'[t].attempt = tasks[t].attempt + 1
  /\ tasks'[t].calls = tasks[t].calls + 1
  /\ tasks'[t].key \in Range(keys) \ exhaustedKeys

\* C24 as stated: a non-retryable error of attempt 1 or 2 does not end the
\* analysis of the chunk: the task waits 1 s after attempt 1 and 2 s after
\* attempt 2, and then makes the next attempt with a key it draws.
C24_NonRetryableStillRetries ==
  [][\A t \in DOMAIN tasks' :
       /\ FailsNonRetryable(t) => BacksOff(t)
       /\ WakesAfterNonRetryable(t) => NextAttemptIsMade(t)]_vars

\* C24 amended: the same, unless no key of the pool is available when the next
\* attempt draws its key; then the error of getNextKey leaves analyzeChunk.
C24_RetriesWhileAKeyIsLeft ==
  [][\A t \in DOMAIN tasks' :
       /\ FailsNonRetryable(t) => BacksOff(t)
       /\ WakesAfterNonRetryable(t) =>
            IF Range(keys) \subseteq exhaustedKeys
            THEN /\ tasks'[t].st = "rejected"
                 /\ tasks'[t].calls = tasks[t].calls
                 /\ AllKeysExhaustedPhrase \in tasks'[t].thrown.message
            ELSE NextAttemptIsMade(t)]_vars

\* A task is in its third attempt after two non-retryable errors.
C24_Witness ==
  \E t \in DOMAIN tasks :
    /\ tasks[t].st = "calling"
    /\ tasks[t].attempt = maxRetries - 1
    /\ tasks[t].calls = maxRetries
    /\ tasks[t].failures = maxRetries - 1
    /\ NonRetryable(tasks[t].lastError)
    /\ exhaustedKeys = {}

\* The invocation was rejected by processChunksInParallel.
ChunkStageRejected == outcome.state = "rejected" /\ ~chunkResults.returned

\* C25: when processChunksInParallel has rejected, every task of the batch it
\* was waiting for has settled, no chunk after that batch was started or
\* completed, and the tasks and the pool's cursor stay as they are until a new
\* analysis is started: the chunk stage draws no key and makes no call.
C25_RejectionLeavesNothingInFlight ==
  /\ [](ChunkStageRejected =>
          /\ \A t \in DOMAIN tasks :
               /\ tasks[t].st \in {"fulfilled", "rejected"}
               /\ tasks[t].chunk \in batchI..(batchI + batchSize - 1)
          /\ \A j \in DOMAIN completionOrder : completionOrder[j] < batchI + batchSize)
  /\ [][(ChunkStageRejected /\ outcome'.state = "rejected")
          => UNCHANGED <<tasks, currentIndex, completionOrder, serviceVars>>]_vars

\* The first batch of a contract of two batches failed: one of its chunks was
\* analysed, the other was rejected after three calls.
C25_Witness ==
  /\ ChunkStageRejected
  /\ batchI = 0 /\ batchSize = 2 /\ totalChunks = 4
  /\ tasks[1].st = "fulfilled"
  /\ tasks[2].st = "rejected" /\ tasks[2].calls = maxRetries

\* A batch is launched in this step, and the credentials that are not
\* exhausted when it is.
BatchIsLaunched == pc = "batchHead" /\ pc' = "awaitBatch"
NonExhausted == Range(keys) \ exhaustedKeys

\* C26: a batch never has more tasks than there are credentials that are not
\* exhausted when it is launched, and the keys its tasks draw for their first
\* attempts are pairwise distinct.
C26_OneCredentialPerTask ==
  [][BatchIsLaunched =>
       /\ Len(tasks') <= Cardinality(NonExhausted)
       /\ \A t, u \in DOMAIN tasks' : t # u => tasks'[t].key # tasks'[u].key]_vars

-----------------------------------------------------------------------------
(* Strings of the rule-based stages.  Cyrillic text is written in Latin    *)
(* letters; the two emoji of the match markers are written [v] and [~].    *)

\* s.substring(from) and s.substring(0, count)
dropFirst(s, count) == SubSeq(s, count + 1, Len(s))
takeFirst(s, count) == SubSeq(s, 1, IF count < Len(s) THEN count ELSE Len(s))

\* s.includes(term)
strIncludes(s, term) ==
  \E i \in 1..(Len(s) - Len(term) + 1) : SubSeq(s, i, i + Len(term) - 1) = term

\* The capital letters of the texts of the model and their lower case.
lowerOf(char) ==
  CASE char = "C" -> "c" [] char = "G" -> "g" [] char = "N" -> "n" [] char = "O" -> "o"
    [] char = "P" -> "p" [] char = "S" -> "s" [] OTHER -> char

\* s.toLowerCase()
RECURSIVE toLowerCase(_)
toLowerCase(s) ==
  IF Len(s) = 0 THEN s ELSE lowerOf(takeFirst(s, 1)) \o toLowerCase(dropFirst(s, 1))

\* s.split(' ')
RECURSIVE splitAtSpaces(_)
splitAtSpaces(s) ==
  IF strIncludes(s, " ")
  THEN LET k == CHOOSE i \in 1..Len(s) :
                  /\ SubSeq(s, i, i) = " "
                  /\ \A j \in 1..(i - 1) : SubSeq(s, j, j) # " "
       IN  <<takeFirst(s, k - 1)>> \o splitAtSpaces(dropFirst(s, k))
  ELSE <<s>>

\* s.trim(), for the blanks of the model
RECURSIVE trim(_)
trim(s) ==
  IF Len(s) > 0 /\ takeFirst(s, 1) = " " THEN trim(dropFirst(s, 1))
  ELSE IF Len(s) > 0 /\ SubSeq(s, Len(s), Len(s)) = " " THEN trim(takeFirst(s, Len(s) - 1))
  ELSE s

\* s.replace(/^[bullet\-\*\d\.]+\s*/, ''): the list marker of a line is removed.
MarkerChars == {"-", "*", ".", "0", "1", "2", "3", "4", "5", "6", "7", "8", "9"}
RECURSIVE dropWhile(_, _)
dropWhile(s, charSet) ==
  IF Len(s) > 0 /\ takeFirst(s, 1) \in charSet THEN dropWhile(dropFirst(s, 1), charSet) ELSE s
stripListMarker(s) ==
  IF Len(s) > 0 /\ takeFirst(s, 1) \in MarkerChars
  THEN dropWhile(dropWhile(s, MarkerChars), {" "})
  ELSE s

-----------------------------------------------------------------------------
(* findMissingRequirementsReliable                                         *)

\* The most requirement lines of a checklist, and the most analysis items.
MaxRequirements == 5
MaxMatches == 3

MinRequirementLength == 20
SearchPhraseLength == 50
MinTermLength == 4
KeyWordCount == 3

FoundMarker == "[v] Sootvetstvuet trebovaniyu:"
PartialMarker == "[~] Chastichno sootvetstvuet trebovaniyu:"
MissingComment == "Dannoe obyazatelnoe trebovanie ne bylo najdeno v tekste dogovora."

\* The lines a checklist of the model is made of; the last one is too short
\* to be a requirement.
ChecklistPool ==
  << "1. Postavshik obyazan postavit tovar v srok",
     "- Oplata proizvoditsya v techenie 10 dnej",
     "Garantiya kachestva sostavlyaet 12 mesyacev",
     "Postavshik obyazan predostavit sertifikaty",
     "Neustojka za prosrochku oplaty 0,1% v den",
     "Strahovanie gruza na vremya perevozki",
     "Prochie usloviya" >>

\* The sub-lists of count lines of the pool, in the order of the pool.
RECURSIVE SubLists(_, _)
SubLists(seq, count) ==
  IF count = 0 THEN {<<>>}
  ELSE IF Len(seq) < count THEN {}
  ELSE {<<Head(seq)>> \o rest : rest \in SubLists(Tail(seq), count - 1)}
         \cup SubLists(Tail(seq), count)
Checklists == SubLists(ChecklistPool, MaxRequirements)

\* The analysis items of the model: each quotes one of the first three lines
\* of the pool in its comment, with or without a match marker.
QuotedTexts == {stripListMarker(ChecklistPool[i]) : i \in 1..3}
GapItems ==
  [category : {"checklist"}, comment : {FoundMarker \o " " \o q : q \in QuotedTexts}]
    \cup [category : {"partial"}, comment : {PartialMarker \o " " \o q : q \in QuotedTexts}]
    \cup [category : {"checklist"}, comment : QuotedTexts]
    \cup [category : {"risk"}, comment : {FoundMarker \o " " \o q : q \in QuotedTexts}]

\* The analyses of the model: the lists of up to MaxMatches different items,
\* each list in one order.
RECURSIVE ListOf(_)
ListOf(set) ==
  IF set = {} THEN <<>>
  ELSE LET x == CHOOSE y \in set : TRUE IN <<x>> \o ListOf(set \ {x})
GapAnalyses == {ListOf(set) : set \in {t \in SUBSET GapItems : Cardinality(t) <= MaxMatches}}

\* Step 1: the requirements of the checklist.
isRequirement(text) == Len(text) > MinRequirementLength
allRequirements(lines) ==
  LET texts == SelectSeq([i \in 1..Len(lines) |-> stripListMarker(trim(lines[i]))],
                         isRequirement)
  IN  [i \in 1..Len(texts) |->
         [text |-> texts[i],
          searchPhrase |-> toLowerCase(takeFirst(texts[i], SearchPhraseLength))]]

\* Step 2: the comments of the items that say which requirement they meet.
namesRequirement(item) ==
  /\ item.category \in {"checklist", "partial"}
  /\ strIncludes(item.comment, FoundMarker) \/ strIncludes(item.comment, PartialMarker)
foundRequirementComments(analysis) ==
  LET items == SelectSeq(analysis, namesRequirement)
  IN  [i \in 1..Len(items) |-> toLowerCase(items[i].comment)]

\* Step 3: the search terms of a requirement, and whether a comment has one.
isKeyWord(word) == Len(word) > MinTermLength
searchTerms(requirement) ==
  LET words == SelectSeq(splitAtSpaces(toLowerCase(requirement.text)), isKeyWord)
  IN  <<requirement.searchPhrase>> \o takeFirst(words, KeyWordCount)
isFound(requirement, comments) ==
  \E i \in 1..Len(comments) :
    \E j \in 1..Len(searchTerms(requirement)) :
      LET term == searchTerms(requirement)[j]
      IN  Len(term) > MinTermLength /\ strIncludes(comments[i], term)

findMissingRequirementsReliable(analysis, lines) ==
  LET comments == foundRequirementComments(analysis)
      notFound(requirement) == ~isFound(requirement, comments)
      missing == SelectSeq(allRequirements(lines), notFound)
  IN  [i \in 1..Len(missing) |->
         [requirement |-> missing[i].text, comment |-> MissingComment]]

\* The rest of the program while a rule-based function is modelled alone.
ProgramIdle ==
  /\ keys = <<"k1">>
  /\ currentIndex = 0
  /\ exhaustedKeys = {}
  /\ poolLog = <<>>
  /\ poolLast = NoCall
  /\ PipelineIdle
  /\ ChunkerIdle
  /\ RepairIdle
  /\ CleanupIdle

InitGaps ==
  /\ ServiceIdle
  /\ ProgramIdle
  /\ SpansIdle
  /\ RightsIdle
  /\ DefectsIdle
  /\ EntitiesIdle
  /\ checklistLines \in Checklists
  /\ gapAnalysis \in GapAnalyses
  /\ missingRequirements = NotComputed

\* findMissingRequirementsReliable(allAnalysis, checklistText)
FindMissingRequirements ==
  /\ ~missingRequirements.computed
  /\ missingRequirements' =
       [computed |-> TRUE,
        value |-> findMissingRequirementsReliable(gapAnalysis, checklistLines)]
  /\ UNCHANGED <<poolVars, logVars, pipeVars, chunkerVars, repairVars, cleanupVars, spanVars,
                 rightsVars, defectVars, entityVars, checklistLines, gapAnalysis, serviceVars>>

NextGaps == FindMissingRequirements

SpecGaps == InitGaps /\ [][NextGaps]_vars

-----------------------------------------------------------------------------
(* Properties of findMissingRequirementsReliable.                          *)

\* The requirement is quoted by the comment of a checklist or partial item
\* that carries a match marker.
isCovered(text) ==
  \E i \in 1..Len(gapAnalysis) :
    /\ namesRequirement(gapAnalysis[i])
    /\ strIncludes(gapAnalysis[i].comment, text)

\* C13: for a checklist of 5 requirements of which the first three are covered
\* by marked checklist or partial items and the last two by none, exactly
\* requirements 4 and 5 are reported, once each and in checklist order.
C13_ReportsUncoveredRequirements ==
  LET reqs == allRequirements(checklistLines)
  IN  (/\ missingRequirements.computed
       /\ Len(reqs) = 5
       /\ \A i \in 1..3 : isCovered(reqs[i].text)
       /\ \A i \in 4..5 : ~isCovered(reqs[i].text))
      => missingRequirements.value =
           <<[requirement |-> reqs[4].text, comment |-> MissingComment],
             [requirement |-> reqs[5].text, comment |-> MissingComment]>>

-----------------------------------------------------------------------------
(* aggregateAndAnalyzeRights and analyzeRightsImbalanceProgrammatically    *)

\* The most classified clauses of the chunk results, and the largest rights
\* count a chunk result reports.
MaxClauses == 3
MaxRights == 3

ClauseIds == {"p1", "p2", "p3"}
Parties == {"buyer", "supplier", "both"}
ClauseTypes == {"liability", "termination"}
ClassifiedClauses == [id : ClauseIds, party : Parties, type : ClauseTypes]

\* allParagraphs: the text of a paragraph is the set of the word stems in it
\* that the keyword filters look for; p3 is in no paragraph of the contract.
paragraphText(id) ==
  CASE id = "p1" -> {"rastorg", "odnostoronn"}
    [] id = "p2" -> {"shtraf", "otkaz", "prover"}
    [] id = "p4" -> {"prekrat", "vprave izmenit"}
    [] id = "p5" -> {"kontrol"}
    [] OTHER -> {}
ModificationStems ==
  {"odnostoronn", "vprave izmenit", "mozhet izmenit", "imeet pravo izmenit"}
TerminationStems == {"rastorg", "otkaz", "prekrat", "annulir"}
ControlStems == {"prover", "kontrol", "priemk", "otklon", "inspekc"}
stemsOf(type) ==
  CASE type = "modification" -> ModificationStems
    [] type = "termination" -> TerminationStems
    [] type = "control" -> ControlStems
typesToAnalyze == <<"modification", "termination", "control">>

\* Array.from(new Map(items.map(item => [item.id, item])).values()): one
\* clause for each id, at the place of the first and with the value of the last.
uniqueById(clauses) ==
  LET isFirst(i) == \A j \in 1..(i - 1) : clauses[j].id # clauses[i].id
      last(id) == CHOOSE i \in 1..Len(clauses) :
                    /\ clauses[i].id = id
                    /\ \A j \in (i + 1)..Len(clauses) : clauses[j].id # id
      firsts == SelectSeq([i \in 1..Len(clauses) |-> i], isFirst)
  IN  [n \in 1..Len(firsts) |-> clauses[last(clauses[firsts[n]].id)]]

\* The clauses of a party and a type.
clausesOf(clauses, party, type) ==
  LET wanted(c) == c.party = party /\ c.type = type IN SelectSeq(clauses, wanted)

\* A severity that does not tell a difference of one from a larger one.
LiabilitySeverityFlat(supplierCount, buyerCount) ==
  IF supplierCount > buyerCount THEN "high" ELSE "none"

\* The severity of the liability imbalance, "none" when none is reported.
liabilitySeverity(supplierCount, buyerCount) ==
  IF supplierCount > buyerCount + 1 THEN "high"
  ELSE IF supplierCount > buyerCount THEN "medium"
  ELSE "none"

\* Part 1 of analyzeRightsImbalanceProgrammatically.
liabilityImbalance(clauses) ==
  LET buyerLiability == clausesOf(clauses, "buyer", "liability")
      supplierLiability == clausesOf(clauses, "supplier", "liability")
      severity == liabilitySeverity(Len(supplierLiability), Len(buyerLiability))
  IN  IF severity # "none"
      THEN <<[id |-> "imbalance_liability", type |-> "liability", severity |-> severity,
              buyerRights |-> Len(buyerLiability),
              supplierRights |-> Len(supplierLiability)]>>
      ELSE <<>>

\* The clauses of a party and a type whose paragraph has a stem of the type;
\* a clause whose paragraph is not in the contract has the text ''.
validRights(clauses, party, type) ==
  LET valid(c) == paragraphText(c.id) \cap stemsOf(type) # {}
  IN  SelectSeq(clausesOf(clauses, party, type), valid)

\* A rule that reports every difference between the counts of the parties.
ImbalancedOnAnyDifference(buyerCount, supplierCount) == buyerCount # supplierCount

\* Math.abs(b - s) > 0 && (b === 0 || s === 0)
isOneSided(buyerCount, supplierCount) ==
  /\ (IF buyerCount > supplierCount THEN buyerCount - supplierCount
                                    ELSE supplierCount - buyerCount) > 0
  /\ (buyerCount = 0 \/ supplierCount = 0)

\* Part 2, for one type of typesToAnalyze: the clauses whose paragraph has
\* none of the stems of the type are left out, then one party must have no
\* clause.
typeImbalance(clauses, type) ==
  LET validBuyerRights == validRights(clauses, "buyer", type)
      validSupplierRights == validRights(clauses, "supplier", type)
  IN  IF isOneSided(Len(validBuyerRights), Len(validSupplierRights))
      THEN <<[id |-> "imbalance_" \o type, type |-> type,
              severity |-> IF type = "modification" THEN "high" ELSE "medium",
              buyerRights |-> Len(validBuyerRights),
              supplierRights |-> Len(validSupplierRights)]>>
      ELSE <<>>

terminationImbalance(clauses) == typeImbalance(clauses, "termination")

analyzeRightsImbalanceProgrammatically(clauses) ==
  liabilityImbalance(clauses)
    \o typeImbalance(clauses, typesToAnalyze[1])
    \o typeImbalance(clauses, typesToAnalyze[2])
    \o typeImbalance(clauses, typesToAnalyze[3])

\* Math.round(100 * part / whole), for whole > 0
roundPercent(part, whole) == (200 * part + whole) \div (2 * whole)

\* The totals of the chunk results decide when no clause was classified.
generalImbalance(totalBuyerRights, totalSupplierRights) ==
  LET difference == IF totalBuyerRights > totalSupplierRights
                    THEN totalBuyerRights - totalSupplierRights
                    ELSE totalSupplierRights - totalBuyerRights
      maxRights == IF totalBuyerRights > totalSupplierRights THEN totalBuyerRights
                   ELSE totalSupplierRights
      imbalancePercentage == IF maxRights > 0 THEN roundPercent(difference, maxRights) ELSE 0
  IN  IF imbalancePercentage > 50
      THEN <<[id |-> "imbalance_1", type |-> "general_rights",
              severity |-> IF imbalancePercentage > 75 THEN "high" ELSE "medium",
              buyerRights |-> totalBuyerRights, supplierRights |-> totalSupplierRights]>>
      ELSE <<>>

aggregateAndAnalyzeRights(input) ==
  LET allClassifiedClauses == uniqueById(input.clauses)
  IN  IF Len(allClassifiedClauses) > 0
      THEN analyzeRightsImbalanceProgrammatically(allClassifiedClauses)
      ELSE generalImbalance(input.buyerRightsCount, input.supplierRightsCount)

\* The chunk results either classify clauses or only count the rights.
RightsInputs ==
  {[clauses |-> c, buyerRightsCount |-> 0, supplierRightsCount |-> 0] :
     c \in SeqsUpTo(ClassifiedClauses, MaxClauses)}
    \cup [clauses : {<<>>}, buyerRightsCount : 0..MaxRights,
          supplierRightsCount : 0..MaxRights]

InitRights ==
  /\ ServiceIdle
  /\ ProgramIdle
  /\ SpansIdle
  /\ GapsIdle
  /\ DefectsIdle
  /\ EntitiesIdle
  /\ rightsInput \in RightsInputs
  /\ rightsResult = NotComputed

\* Stage 5: aggregateAndAnalyzeRights(chunkResults, paragraphs)
AggregateRights ==
  /\ ~rightsResult.computed
  /\ rightsResult' = [computed |-> TRUE, value |-> aggregateAndAnalyzeRights(rightsInput)]
  /\ UNCHANGED <<poolVars, logVars, pipeVars, chunkerVars, repairVars, cleanupVars, spanVars,
                 gapVars, defectVars, entityVars, rightsInput, serviceVars>>

NextRights == AggregateRights

SpecRights == InitRights /\ [][NextRights]_vars

\* The chunk results classify each of five clauses at most once, with any
\* party and any of the types of typesToAnalyze.
AnalysedTypes == {"modification", "termination", "control"}
NoClause == [party |-> "none", type |-> "none"]
Classifications == [party : Parties, type : AnalysedTypes] \cup {NoClause}
ContractClauseIds == <<"p1", "p2", "p3", "p4", "p5">>
classifiedBy(choice) ==
  LET all == [i \in 1..Len(ContractClauseIds) |->
                [id |-> ContractClauseIds[i], party |-> choice[i].party,
                 type |-> choice[i].type]]
      present(c) == c.party # "none"
  IN  SelectSeq(all, present)
TypedRightsInputs ==
  {[clauses |-> classifiedBy(choice), buyerRightsCount |-> 0, supplierRightsCount |-> 0] :
     choice \in [1..Len(ContractClauseIds) -> Classifications]}

InitRightTypes ==
  /\ ServiceIdle
  /\ ProgramIdle
  /\ SpansIdle
  /\ GapsIdle
  /\ DefectsIdle
  /\ EntitiesIdle
  /\ rightsInput \in TypedRightsInputs
  /\ rightsResult = NotComputed

SpecRightTypes == InitRightTypes /\ [][NextRights]_vars

-----------------------------------------------------------------------------
(* Properties of the rights aggregation.                                   *)

\* The liability clauses a party has among the classified clauses.
liabilityCount(party) == Len(clausesOf(uniqueById(rightsInput.clauses), party, "liability"))

\* The liability findings of the result.
liabilityFindings ==
  LET isLiability(f) == f.type = "liability" IN SelectSeq(rightsResult.value, isLiability)

\* C14: with s supplier and b buyer liability clauses, s = b + 1 gives one
\* liability imbalance of severity medium with supplierRights = s and
\* buyerRights = b, and s > b + 1 gives it with severity high.
C14_SupplierLiabilityImbalance ==
  LET supplierCount == liabilityCount("supplier")
      buyerCount == liabilityCount("buyer")
      finding(severity) == [id |-> "imbalance_liability", type |-> "liability",
                            severity |-> severity, buyerRights |-> buyerCount,
                            supplierRights |-> supplierCount]
  IN  rightsResult.computed =>
        /\ supplierCount = buyerCount + 1 => liabilityFindings = <<finding("medium")>>
        /\ supplierCount > buyerCount + 1 => liabilityFindings = <<finding("high")>>

\* The clauses p1 and p2 of the supplier and p3 of the buyer, all of type
\* liability, gave the finding of severity medium with 2 and 1 rights.
C14_Witness ==
  /\ rightsResult.computed
  /\ rightsInput.clauses = <<[id |-> "p1", party |-> "supplier", type |-> "liability"],
                             [id |-> "p2", party |-> "supplier", type |-> "liability"],
                             [id |-> "p3", party |-> "buyer", type |-> "liability"]>>
  /\ liabilityFindings = <<[id |-> "imbalance_liability", type |-> "liability",
                            severity |-> "medium", buyerRights |-> 1,
                            supplierRights |-> 2]>>

\* C15: whenever the parties have different numbers of liability clauses, a
\* liability imbalance is reported, whichever party has more.
C15_LiabilityImbalanceEitherWay ==
  (rightsResult.computed /\ liabilityCount("supplier") # liabilityCount("buyer"))
    => Len(liabilityFindings) = 1

\* The findings of a type in the result.
findingsOf(type) ==
  LET isOfType(f) == f.type = type IN SelectSeq(rightsResult.value, isOfType)

\* The clauses of a party and a type, among the classified clauses, whose
\* paragraph is in the contract and has a stem of the type.
validCount(party, type) ==
  Cardinality({c \in Range(uniqueById(rightsInput.clauses)) :
                 /\ c.party = party
                 /\ c.type = type
                 /\ \E stem \in stemsOf(type) : stem \in paragraphText(c.id)})

-----------------------------------------------------------------------------
(* The rules of findStructuralDefects, and findCyclicReferences            *)

\* The most paragraphs of a contract whose references are looked at.
MaxClauseParagraphs == 2

\* A paragraph is its leading clause number ("" when it has none) and the
\* places of its text where a word is followed by a clause number.
NoNumber == ""
ClauseNumbers == {"1", "2"}
MentionedNumbers == {"1", "2", "3"}
MentionWords == {"p.", "punktom", "podpunkt", "punkta"}
Mentions == [word : MentionWords, number : MentionedNumbers]
MentionLists == {<<>>} \cup {<<m>> : m \in Mentions}
ClauseParagraphTexts == [number : ClauseNumbers \cup {NoNumber}, mentions : MentionLists]

\* The alternatives of the reference pattern of findStructuralDefects and of
\* the one of findCyclicReferences; both allow a full stop after the word.
StructuralReferenceWords ==
  {"p", "punkt", "punkte", "punktu", "punktom", "punktah", "podpunkt", "podpunkte"}
CyclicReferenceWords == {"p", "punkt", "punkte", "punktu"}

\* The pattern is not anchored: it matches where the letters before the
\* number end with one of its alternatives.
endsWith(s, suffix) ==
  Len(suffix) <= Len(s) /\ SubSeq(s, Len(s) - Len(suffix) + 1, Len(s)) = suffix
withoutFullStop(word) == IF endsWith(word, ".") THEN takeFirst(word, Len(word) - 1) ELSE word
isReference(mention, words) == \E w \in words : endsWith(withoutFullStop(mention.word), w)

\* The clause numbers a paragraph refers to, as a pattern finds them.
referencesOf(paragraph, words) ==
  LET matched(m) == isReference(m, words)
      found == SelectSeq(paragraph.mentions, matched)
  IN  [i \in 1..Len(found) |-> found[i].number]

\* Step 1: the numbers of the clause map.
clauseNumbers(ps) == {ps[i].number : i \in 1..Len(ps)} \ {NoNumber}

\* Steps 2 to 4 for one reference of a paragraph, and for all of them.
defectsOfReference(ps, i, referenced) ==
  (IF referenced \notin clauseNumbers(ps)
   THEN <<[type |-> "broken_reference", location |-> i, clause |-> ps[i].number,
           reference |-> referenced]>>
   ELSE <<>>)
  \o (IF ps[i].number # NoNumber /\ referenced = ps[i].number
      THEN <<[type |-> "self_reference", location |-> i, clause |-> ps[i].number,
              reference |-> referenced]>>
      ELSE <<>>)

RECURSIVE Flatten(_)
Flatten(lists) == IF lists = <<>> THEN <<>> ELSE Head(lists) \o Flatten(Tail(lists))

referenceDefects(ps) ==
  Flatten([i \in 1..Len(ps) |->
             LET refs == referencesOf(ps[i], StructuralReferenceWords)
             IN  Flatten([r \in 1..Len(refs) |-> defectsOfReference(ps, i, refs[r])])])

\* findCyclicReferences: the reference graph has an entry for each numbered
\* paragraph that refers to another clause; a later paragraph of the same
\* number replaces the entry.
referenceGraph(ps) ==
  LET others(i) == LET notSelf(n) == n # ps[i].number
                   IN  SelectSeq(referencesOf(ps[i], CyclicReferenceWords), notSelf)
      hasEntry(i) == ps[i].number # NoNumber /\ Len(others(i)) > 0
      entries == SelectSeq([i \in 1..Len(ps) |-> i], hasEntry)
      isFirst(n) == \A m \in 1..(n - 1) : ps[entries[m]].number # ps[entries[n]].number
      last(number) == CHOOSE n \in 1..Len(entries) :
                        /\ ps[entries[n]].number = number
                        /\ \A m \in (n + 1)..Len(entries) : ps[entries[m]].number # number
      firsts == SelectSeq([n \in 1..Len(entries) |-> n], isFirst)
  IN  [n \in 1..Len(firsts) |->
         [clause |-> ps[entries[firsts[n]]].number,
          refs |-> others(entries[last(ps[entries[firsts[n]]].number)])]]

findCyclicReferences(ps) ==
  LET graph == referenceGraph(ps)
      refersBack(ref, clause) ==
        \E n \in 1..Len(graph) :
          graph[n].clause = ref /\ \E r \in 1..Len(graph[n].refs) : graph[n].refs[r] = clause
  IN  Flatten([n \in 1..Len(graph) |->
                 Flatten([r \in 1..Len(graph[n].refs) |->
                            IF refersBack(graph[n].refs[r], graph[n].clause)
                            THEN <<[type |-> "cyclic_reference", location |-> 0,
                                    clause |-> graph[n].clause,
                                    reference |-> graph[n].refs[r]]>>
                            ELSE <<>>])])

\* The defects findStructuralDefects finds by its rules.
ruleBasedDefects(ps) == referenceDefects(ps) \o findCyclicReferences(ps)

InitDefects ==
  /\ ServiceIdle
  /\ ProgramIdle
  /\ SpansIdle
  /\ GapsIdle
  /\ RightsIdle
  /\ EntitiesIdle
  /\ clauseParagraphs \in SeqsUpTo(ClauseParagraphTexts, MaxClauseParagraphs)
  /\ ruleDefects = NotComputed

\* The rules of findStructuralDefects(paragraphs, ...)
FindRuleDefects ==
  /\ ~ruleDefects.computed
  /\ ruleDefects' = [computed |-> TRUE, value |-> ruleBasedDefects(clauseParagraphs)]
  /\ UNCHANGED <<poolVars, logVars, pipeVars, chunkerVars, repairVars, cleanupVars, spanVars,
                 gapVars, rightsVars, entityVars, clauseParagraphs, serviceVars>>

NextDefects == FindRuleDefects

SpecDefects == InitDefects /\ [][NextDefects]_vars

-----------------------------------------------------------------------------
(* Properties of the structural rules.                                     *)

\* The defects of a type that the rules reported.
Reported(type) ==
  {ruleDefects.value[d] : d \in {e \in 1..Len(ruleDefects.value) :
                                   ruleDefects.value[e].type = type}}

\* Paragraph i has an in-text reference to the clause number.
RefersTo(i, number) ==
  \E r \in 1..Len(referencesOf(clauseParagraphs[i], StructuralReferenceWords)) :
    referencesOf(clauseParagraphs[i], StructuralReferenceWords)[r] = number

Numbered == {i \in 1..Len(clauseParagraphs) : clauseParagraphs[i].number # NoNumber}

\* C18: for numbered paragraphs with different clause numbers, a reference is
\* reported as broken exactly when its number is not in the clause map, every
\* clause that refers to its own number is reported as a self reference, and
\* every two clauses that refer to each other are reported as a cyclic reference.
C18_RulesFlagReferences ==
  (/\ ruleDefects.computed
   /\ \A i, j \in Numbered : i # j => clauseParagraphs[i].number # clauseParagraphs[j].number)
  => \A i \in Numbered :
       LET own == clauseParagraphs[i].number
       IN  /\ \A number \in MentionedNumbers :
                (RefersTo(i, number) /\ number \notin clauseNumbers(clauseParagraphs))
                  <=> (\E d \in Reported("broken_reference") :
                         d.location = i /\ d.reference = number)
           /\ RefersTo(i, own)
                => \E d \in Reported("self_reference") : d.location = i
           /\ \A j \in Numbered \ {i} :
                LET other == clauseParagraphs[j].number
                IN  (RefersTo(i, other) /\ RefersTo(j, own))
                      => \E d \in Reported("cyclic_reference") :
                           {d.clause, d.reference} = {own, other}

-----------------------------------------------------------------------------
(* extractEntitiesFromAnalysis and findPotentialContradictions             *)

\* The most paragraphs entities are extracted from.
MaxEntityParagraphs == 2

ContextRadius == 50
MinContextWord == 3

\* The texts of the model have single blanks, whole numbers and no amount of
\* money; the id of a paragraph is its place in the list.
EntityTexts ==
  {"Srok postavki 10 dnej", "Srok postavki 5 dnej", "srok postavki 10 dnej s daty oplaty",
   "Postavka 10 dnej, oplata 5 dnej", "neustojka 5% za den prosrochki",
   "neustojka 10% za den prosrochki platezha", "Garantiya 12 mesyacev",
   "Otvetstvennost storon", "za prosrochku shtraf 3%"}

\* The alternatives of the patterns, in their order.
TermUnits == <<"dn", "den", "dnya", "dnej", "kalendarn", "raboch", "mesyac", "god">>
PercentUnits == <<"%", "procent">>
LiabilityWords == <<"otvetstvennost", "obyazatelstvo", "obyazannost", "shtraf", "sankcii">>
PenaltyWords == <<"penya", "peni", "neustojka", "shtraf">>
Undetermined == "ne opredeleno"

Digits == {"0", "1", "2", "3", "4", "5", "6", "7", "8", "9"}
charAt(s, i) == IF i >= 1 /\ i <= Len(s) THEN SubSeq(s, i, i) ELSE ""
startsWithAt(s, i, word) == i + Len(word) - 1 <= Len(s) /\ SubSeq(s, i, i + Len(word) - 1) = word

\* The first place from i on whose character is not in the set.
RECURSIVE skip(_, _, _)
skip(s, i, charSet) == IF charAt(s, i) \in charSet THEN skip(s, i + 1, charSet) ELSE i

\* A match at place i of digits, blanks and one of the units: the place of its
\* last character, 0 when there is no match at i.
matchEndAt(s, i, units) ==
  LET k == skip(s, skip(s, i, Digits), {" "})
      fitting == {u \in 1..Len(units) : startsWithAt(s, k, units[u])}
  IN  IF charAt(s, i) \in Digits /\ fitting # {}
      THEN k + Len(units[CHOOSE u \in fitting : \A v \in fitting : u <= v]) - 1
      ELSE 0

\* pattern.exec(text) in a loop: the matches from place i on, left to right.
RECURSIVE matchesFrom(_, _, _)
matchesFrom(s, i, units) ==
  IF i > Len(s) THEN <<>>
  ELSE IF matchEndAt(s, i, units) = 0 THEN matchesFrom(s, i + 1, units)
  ELSE <<[index |-> i - 1, value |-> SubSeq(s, i, matchEndAt(s, i, units))]>>
         \o matchesFrom(s, matchEndAt(s, i, units) + 1, units)

\* text.substring(Math.max(0, index - 50), index + length + 50)
contextOf(text, match) ==
  LET from == IF match.index > ContextRadius THEN match.index - ContextRadius ELSE 0
      to == match.index + Len(match.value) + ContextRadius
  IN  SubSeq(text, from + 1, IF to < Len(text) THEN to ELSE Len(text))

\* pattern.test(text) of a pattern with the flag g: the search starts at
\* lastIndex, which a match moves to its end and a failure sets to 0.
firstWordAt(s, i, words) ==
  LET fitting == {w \in 1..Len(words) : startsWithAt(s, i, words[w])}
  IN  IF fitting = {} THEN 0
      ELSE i + Len(words[CHOOSE w \in fitting : \A v \in fitting : w <= v]) - 1
testFrom(s, lastIndex, words) ==
  LET places == {i \in (lastIndex + 1)..Len(s) : firstWordAt(s, i, words) # 0}
  IN  IF places = {} THEN [found |-> FALSE, lastIndex |-> 0]
      ELSE [found |-> TRUE,
            lastIndex |-> firstWordAt(s, CHOOSE i \in places : \A j \in places : i <= j, words)]

\* The entities of one paragraph, and the lastIndex of the two patterns that
\* are tested, after it.
entitiesOfParagraph(id, original, lastIndexes) ==
  LET text == toLowerCase(original)
      terms == matchesFrom(text, 1, TermUnits)
      percents == matchesFrom(text, 1, PercentUnits)
      liability == testFrom(text, lastIndexes.liability, LiabilityWords)
      penalty == IF liability.found THEN [found |-> FALSE, lastIndex |-> lastIndexes.penalty]
                 ELSE testFrom(text, lastIndexes.penalty, PenaltyWords)
      entity(type, match) == [id |-> id, entityType |-> type, value |-> match.value,
                              context |-> contextOf(original, match)]
  IN  [entities |->
         [n \in 1..Len(terms) |-> entity("srok", terms[n])]
           \o [n \in 1..Len(percents) |-> entity("procent", percents[n])]
           \o (IF liability.found \/ penalty.found
               THEN <<[id |-> id, entityType |-> "otvetstvennost",
                       value |-> IF Len(percents) > 0 THEN percents[1].value
                                 ELSE Undetermined,
                       context |-> original]>>
               ELSE <<>>),
       lastIndexes |-> [liability |-> liability.lastIndex, penalty |-> penalty.lastIndex]]

RECURSIVE entitiesFrom(_, _, _)
entitiesFrom(ps, n, lastIndexes) ==
  IF n > Len(ps) THEN <<>>
  ELSE LET r == entitiesOfParagraph(n, ps[n], lastIndexes)
       IN  r.entities \o entitiesFrom(ps, n + 1, r.lastIndexes)

extractEntitiesFromAnalysis(ps) == entitiesFrom(ps, 1, [liability |-> 0, penalty |-> 0])

\* The words of a context that count, and those two contexts share.
StopWords ==
  {"etom", "togo", "etogo", "kotorye", "kotoryh", "mozhet", "dolzhen", "dolzhna", "budet"}
contextWords(context) ==
  LET long(word) == Len(word) > MinContextWord
  IN  SelectSeq(splitAtSpaces(toLowerCase(context)), long)
commonWords(context1, context2, stopWords) ==
  LET words2 == contextWords(context2)
      shared(word) == (\E n \in 1..Len(words2) : words2[n] = word) /\ word \notin stopWords
  IN  SelectSeq(contextWords(context1), shared)

\* parseFloat of the digits of a value, for the whole numbers of the model.
RECURSIVE numberOf(_, _)
numberOf(value, sofar) ==
  IF charAt(value, 1) \in Digits
  THEN numberOf(dropFirst(value, 1),
                10 * sofar + (CHOOSE d \in 0..9 : ToString(d) = charAt(value, 1)))
  ELSE sofar

\* A pair whose values are equal, whatever its paragraphs.
DiffersInParagraphOnly(entity1, entity2) == entity1.id # entity2.id

\* entity1.id !== entity2.id && entity1.value !== entity2.value
differs(entity1, entity2) == entity1.id # entity2.id /\ entity1.value # entity2.value

\* The test of each of the three loops on a pair of entities of its type.
isTemporal(entity1, entity2) ==
  LET common == Len(commonWords(entity1.context, entity2.context, StopWords))
      both(word) == strIncludes(entity1.context, word) /\ strIncludes(entity2.context, word)
  IN  /\ differs(entity1, entity2)
      /\ \/ common >= 3
         \/ common >= 2 /\ (both("postavka") \/ both("platezh") \/ both("oplata"))
isQuantitative(entity1, entity2) ==
  LET common == Len(commonWords(entity1.context, entity2.context,
                                {"etom", "togo", "etogo", "kotorye", "kotoryh"}))
      both(word) == strIncludes(entity1.context, word) /\ strIncludes(entity2.context, word)
  IN  /\ differs(entity1, entity2)
      /\ numberOf(entity1.value, 0) # numberOf(entity2.value, 0)
      /\ common >= 2 \/ both("neustojka") \/ both("penya") \/ both("shtraf")
isFinancial(entity1, entity2) ==
  /\ differs(entity1, entity2)
  /\ entity1.value # Undetermined
  /\ entity2.value # Undetermined

\* One loop: the pairs i < j of the entities of a type that pass its test.
pairsOfType(entities, entityType, test(_, _), type) ==
  LET ofType(e) == e.entityType = entityType
      group == SelectSeq(entities, ofType)
  IN  Flatten([i \in 1..Len(group) |->
                 Flatten([j \in 1..Len(group) |->
                            IF i < j /\ test(group[i], group[j])
                            THEN <<[entity1 |-> group[i], entity2 |-> group[j],
                                    type |-> type]>>
                            ELSE <<>>])])

findPotentialContradictions(entities) ==
  pairsOfType(entities, "srok", isTemporal, "temporal")
    \o pairsOfType(entities, "procent", isQuantitative, "quantitative")
    \o pairsOfType(entities, "otvetstvennost", isFinancial, "financial")

InitEntities ==
  /\ ServiceIdle
  /\ ProgramIdle
  /\ SpansIdle
  /\ GapsIdle
  /\ RightsIdle
  /\ DefectsIdle
  /\ entityParagraphs \in SeqsUpTo(EntityTexts, MaxEntityParagraphs)
  /\ candidates = NotComputed

\* findPotentialContradictions(extractEntitiesFromAnalysis(contractParagraphs))
FindCandidates ==
  /\ ~candidates.computed
  /\ candidates' =
       LET entities == extractEntitiesFromAnalysis(entityParagraphs)
       IN  [computed |-> TRUE,
            value |-> [entities |-> entities,
                       pairs |-> findPotentialContradictions(entities)]]
  /\ UNCHANGED <<poolVars, logVars, pipeVars, chunkerVars, repairVars, cleanupVars, spanVars,
                 gapVars, rightsVars, defectVars, entityParagraphs, serviceVars>>

NextEntities == FindCandidates

SpecEntities == InitEntities /\ [][NextEntities]_vars

-----------------------------------------------------------------------------
(* Properties of the candidate pairing.                                    *)

\* The entities of type srok of paragraph n.
TermsOf(n) ==
  {candidates.value.entities[e] : e \in {k \in 1..Len(candidates.value.entities) :
     /\ candidates.value.entities[k].id = n
     /\ candidates.value.entities[k].entityType = "srok"}}

Pairs == {candidates.value.pairs[c] : c \in 1..Len(candidates.value.pairs)}

\* C20: a paragraph with a delivery term of 10 days and another with one of 5
\* days give one srok entity each, of different values, and the two are a
\* temporal candidate; and no candidate ever has two entities of the same
\* paragraph or of equal values.
C20_TermsBecomeCandidates ==
  candidates.computed =>
    /\ \A c \in Pairs : c.entity1.id # c.entity2.id /\ c.entity1.value # c.entity2.value
    /\ \A i, j \in 1..Len(entityParagraphs) :
         (entityParagraphs[i] = "Srok postavki 10 dnej"
            /\ entityParagraphs[j] = "Srok postavki 5 dnej")
         => /\ Cardinality(TermsOf(i)) = 1
            /\ Cardinality(TermsOf(j)) = 1
            /\ \A a \in TermsOf(i), b \in TermsOf(j) :
                 /\ a.value # b.value
                 /\ \E c \in Pairs :
                      c.type = "temporal" /\ {c.entity1, c.entity2} = {a, b}

\* The two paragraphs of the scenario gave their temporal candidate.
C20_Witness ==
  /\ candidates.computed
  /\ entityParagraphs = <<"Srok postavki 10 dnej", "Srok postavki 5 dnej">>
  /\ \E c \in Pairs :
       c.type = "temporal" /\ c.entity1.value = "10 dn" /\ c.entity2.value = "5 dn"

-----------------------------------------------------------------------------
(* splitIntoSpans: the contract text is cut into paragraphs.  The text is  *)
(* held as its lines, what text.split(/\n/) gives; Cyrillic is written in  *)
(* Latin letters, capital for capital.                                     *)

MaxLines == 3

MAX_PARAGRAPH_LENGTH == 1500
MIN_CONTENT_LENGTH == 20
MaxHeadingLength == 100

\* n copies of a text, one after the other.
RECURSIVE copies(_, _)
copies(text, n) == IF n = 0 THEN "" ELSE text \o copies(text, n - 1)

\* Two lines longer than MAX_PARAGRAPH_LENGTH: one of statements, one of
\* questions.
LongStatements == copies("Tovar postavlyaetsya v srok. ", 52)
LongQuestions == copies("Kto platit za dostavku? ", 63)

LinePool ==
  {"",
   "PREDMET DOGOVORA",
   "1. Postavshchik obyazuetsya postavit tovar.",
   "  Pokupatel obyazan oplatit tovar v srok.  ",
   "(sm. prilozhenie)",
   "12.05.2024",
   "Punkt 3 dejstvuet do 31.12.2024.",
   LongStatements,
   LongQuestions}

ContractTexts == UNION {[1..n -> LinePool] : n \in 1..MaxLines}

CapitalLetters ==
  {"A", "B", "C", "D", "E", "F", "G", "H", "I", "J", "K", "L", "M", "N", "O", "P", "Q",
   "R", "S", "T", "U", "V", "W", "X", "Y", "Z"}
SectionWords == {"statya", "razdel", "glava", "punkt"}
SentenceMarks == {".", "!", "?"}
NumberAndDateChars == Digits \cup {" ", ".", "-", "/"}

\* Every character of s is in the set.
allIn(s, charSet) == \A i \in 1..Len(s) : charAt(s, i) \in charSet

\* /^\d+\.(\d+\.)*\s/: the place after the last "digits." group from i on.
RECURSIVE afterNumberGroups(_, _)
afterNumberGroups(s, i) ==
  LET k == skip(s, i, Digits)
  IN  IF k > i /\ charAt(s, k) = "." THEN afterNumberGroups(s, k + 1) ELSE i

isNumbered(trimmed) ==
  LET k == afterNumberGroups(trimmed, 1) IN k > 1 /\ charAt(trimmed, k) = " "

\* /^[capital letters and blanks]{3,}$/
isCapitals(trimmed) == Len(trimmed) >= 3 /\ allIn(trimmed, CapitalLetters \cup {" "})

\* /^(statya|razdel|glava|punkt)\s*\d+/i
namesSection(trimmed) ==
  \E w \in SectionWords :
    /\ toLowerCase(takeFirst(trimmed, Len(w))) = w
    /\ charAt(trimmed, skip(trimmed, Len(w) + 1, {" "})) \in Digits

isNewSection(line) ==
  LET trimmed == trim(line)
  IN  \/ isNumbered(trimmed)
      \/ isCapitals(trimmed) /\ Len(trimmed) < MaxHeadingLength
      \/ namesSection(trimmed)

isImportantContent(text) ==
  LET trimmed == trim(text)
  IN  /\ Len(trimmed) >= MIN_CONTENT_LENGTH
      /\ ~isCapitals(trimmed)
      /\ ~(Len(trimmed) >= 1 /\ allIn(trimmed, NumberAndDateChars))

\* The first place from i on whose character is in the set, Len(s) + 1 when
\* there is none.
RECURSIVE placeOf(_, _, _)
placeOf(s, i, charSet) ==
  IF i > Len(s) \/ charAt(s, i) \in charSet THEN i ELSE placeOf(s, i + 1, charSet)

\* s.split(/[.!?]+/), from place i on
RECURSIVE splitAtMarks(_, _)
splitAtMarks(s, i) ==
  LET k == placeOf(s, i, SentenceMarks)
  IN  IF k > Len(s) THEN <<SubSeq(s, i, Len(s))>>
      ELSE <<SubSeq(s, i, k - 1)>> \o splitAtMarks(s, skip(s, k, SentenceMarks))

\* parts.join('.')
RECURSIVE joinWithStops(_)
joinWithStops(parts) ==
  IF Len(parts) = 0 THEN ""
  ELSE IF Len(parts) = 1 THEN parts[1]
  ELSE parts[1] \o "." \o joinWithStops(Tail(parts))

\* paragraphs.push(text.trim()) when the text is not blank and important
pushIfImportant(list, text) ==
  IF trim(text) # "" /\ isImportantContent(text) THEN Append(list, trim(text)) ELSE list

\* The paragraph after a line that is not blank was taken.
withLine(current, trimmedLine) ==
  IF isNewSection(trimmedLine) THEN trimmedLine
  ELSE IF current # ""
  THEN LET needsSpace == /\ ~endsWith(current, " ")
                         /\ takeFirst(trimmedLine, 1) # "("
                         /\ ~endsWith(current, "(")
       IN  current \o (IF needsSpace THEN " " ELSE "") \o trimmedLine
  ELSE trimmedLine

\* The forced split of a paragraph longer than MAX_PARAGRAPH_LENGTH: the
\* paragraphs and currentParagraph after it.
forcedSplit(list, current) ==
  LET sentences == splitAtMarks(current, 1)
      midPoint == Len(sentences) \div 2
      firstPart == joinWithStops(SubSeq(sentences, 1, midPoint)) \o "."
      secondPart == trim(joinWithStops(SubSeq(sentences, midPoint + 1, Len(sentences))))
  IN  IF Len(current) > MAX_PARAGRAPH_LENGTH /\ Len(sentences) > 1
      THEN [paragraphs |-> pushIfImportant(list, firstPart), current |-> secondPart]
      ELSE [paragraphs |-> list, current |-> current]

\* One turn of the loop over the lines.
afterLine(list, current, line) ==
  LET trimmedLine == trim(line)
  IN  IF trimmedLine = ""
      THEN IF trim(current) # "" /\ isImportantContent(current)
           THEN [paragraphs |-> Append(list, trim(current)), current |-> ""]
           ELSE [paragraphs |-> list, current |-> current]
      ELSE forcedSplit(IF isNewSection(trimmedLine) THEN pushIfImportant(list, current)
                       ELSE list,
                       withLine(current, trimmedLine))

\* The last paragraph is added, the paragraphs are filtered and numbered.
numbered(list) ==
  LET kept == SelectSeq(list, isImportantContent)
  IN  [j \in 1..Len(kept) |-> [id |-> j, text |-> kept[j]]]

InitSpans ==
  /\ ServiceIdle
  /\ ProgramIdle
  /\ GapsIdle
  /\ RightsIdle
  /\ DefectsIdle
  /\ EntitiesIdle
  /\ contractLines \in ContractTexts
  /\ lineIndex = 0
  /\ currentParagraph = ""
  /\ spanParagraphs = <<>>
  /\ spans = NotComputed

\* splitIntoSpans: the loop takes the next line.
SplitLine ==
  /\ ~spans.computed
  /\ lineIndex < Len(contractLines)
  /\ LET after == afterLine(spanParagraphs, currentParagraph, contractLines[lineIndex + 1])
     IN  /\ spanParagraphs' = after.paragraphs
         /\ currentParagraph' = after.current
  /\ lineIndex' = lineIndex + 1
  /\ UNCHANGED <<poolVars, logVars, pipeVars, chunkerVars, repairVars, cleanupVars, ruleVars,
                 contractLines, spans, serviceVars>>

\* splitIntoSpans: the loop is over and the function returns.
SplitReturn ==
  /\ ~spans.computed
  /\ lineIndex = Len(contractLines)
  /\ spanParagraphs' = pushIfImportant(spanParagraphs, currentParagraph)
  /\ spans' = [computed |-> TRUE,
               value |-> numbered(pushIfImportant(spanParagraphs, currentParagraph))]
  /\ UNCHANGED <<poolVars, logVars, pipeVars, chunkerVars, repairVars, cleanupVars, ruleVars,
                 contractLines, lineIndex, currentParagraph, serviceVars>>

NextSpans == SplitLine \/ SplitReturn

SpecSpans == InitSpans /\ [][NextSpans]_vars

-----------------------------------------------------------------------------
(* Properties of splitIntoSpans.                                           *)

\* A text without its blanks.
RECURSIVE withoutBlanks(_)
withoutBlanks(s) ==
  IF Len(s) <= 1 THEN (IF s = " " THEN "" ELSE s)
  ELSE withoutBlanks(takeFirst(s, Len(s) \div 2)) \o withoutBlanks(dropFirst(s, Len(s) \div 2))

RECURSIVE joined(_)
joined(texts) == IF Len(texts) = 0 THEN "" ELSE texts[1] \o joined(Tail(texts))

\* The content of the contract and of the returned paragraphs, in order.
originalContent == joined([i \in DOMAIN contractLines |-> withoutBlanks(contractLines[i])])
returnedTexts == [j \in DOMAIN spans.value |-> withoutBlanks(spans.value[j].text)]

\* The texts from the j-th on are pieces of the content from place i on, one
\* after the other.
RECURSIVE piecesInOrder(_, _, _, _)
piecesInOrder(content, i, texts, j) ==
  IF j > Len(texts) THEN TRUE
  ELSE LET places == {k \in i..(Len(content) - Len(texts[j]) + 1) :
                        startsWithAt(content, k, texts[j])}
       IN  /\ places # {}
           /\ piecesInOrder(content,
                            (CHOOSE k \in places : \A m \in places : k <= m) + Len(texts[j]),
                            texts, j + 1)

\* No paragraph of the contract can reach MAX_PARAGRAPH_LENGTH.
RECURSIVE lengthOfLines(_)
lengthOfLines(lines) ==
  IF Len(lines) = 0 THEN 0 ELSE Len(lines[1]) + 1 + lengthOfLines(Tail(lines))
NothingToSplit == lengthOfLines(contractLines) <= MAX_PARAGRAPH_LENGTH

\* C21: the returned paragraphs, without their blanks, are pieces of the
\* contract text without its blanks, in the order of the text and without
\* overlap: nothing is changed, duplicated or reordered, also after a forced
\* split.  Where nothing is split, every line that is important content on
\* its own is part of what is returned.
C21_SpansReproduceContent ==
  spans.computed =>
    /\ piecesInOrder(originalContent, 1, returnedTexts, 1)
    /\ NothingToSplit =>
         \A i \in DOMAIN contractLines :
           isImportantContent(contractLines[i])
             => strIncludes(joined(returnedTexts), withoutBlanks(contractLines[i]))

-----------------------------------------------------------------------------
(* The percentage of the progress messages of processChunksInParallel,     *)
(* Math.round((processedChunks / totalChunks) * 100), in the arithmetic of *)
(* JavaScript numbers.  A number is held in binary: the bits of its        *)
(* significand, the most significant first, and an exponent; its value is  *)
(* 0.b1 b2 ... b53 times 2 to the exponent.                                *)

\* Largest number of chunks of a contract whose progress is followed.
MaxProgressChunks == 40

\* The bits of the significand of a JavaScript number.
SignificandBits == 53

\* A number of several bytes, the most significant first, as its bits, and
\* the value of some bits.
powerOfTwo(k) == <<1, 2, 4, 8, 16, 32, 64, 128>>[k + 1]
bitsOf(bytes) ==
  [i \in 1..(8 * Len(bytes)) |->
     (bytes[((i - 1) \div 8) + 1] \div powerOfTwo(7 - ((i - 1) % 8))) % 2]
RECURSIVE valueOf(_)
valueOf(bits) ==
  IF Len(bits) = 0 THEN 0
  ELSE 2 * valueOf(SubSeq(bits, 1, Len(bits) - 1)) + bits[Len(bits)]
bytesOf(bits) == [j \in 1..(Len(bits) \div 8) |-> valueOf(SubSeq(bits, 8 * j - 7, 8 * j))]

zeros(n) == [i \in 1..n |-> 0]
firstOne(bits) == CHOOSE i \in 1..Len(bits) : bits[i] = 1 /\ \A j \in 1..(i - 1) : bits[j] = 0

\* The first n bytes of r / t after the binary point (r < t), and what is left
\* of r after them.
RECURSIVE quotient(_, _, _)
quotient(r, t, n) ==
  IF n = 0 THEN [bytes |-> <<>>, rest |-> r]
  ELSE LET q == quotient((256 * r) % t, t, n - 1)
       IN  [bytes |-> <<(256 * r) \div t>> \o q.bytes, rest |-> q.rest]

\* bytes * factor + carry
RECURSIVE scaled(_, _, _)
scaled(bytes, factor, carry) ==
  IF Len(bytes) = 0 THEN <<carry>>
  ELSE LET v == bytes[Len(bytes)] * factor + carry
       IN  scaled(SubSeq(bytes, 1, Len(bytes) - 1), factor, v \div 256) \o <<v % 256>>

\* bits + 1
plusOne(bits) ==
  LET places == {i \in 1..Len(bits) : bits[i] = 0}
      last == CHOOSE i \in places : \A j \in places : j <= i
  IN  IF places = {} THEN <<1>> \o zeros(Len(bits))
      ELSE [i \in 1..Len(bits) |-> IF i < last THEN bits[i] ELSE IF i = last THEN 1 ELSE 0]

\* The number nearest to 0.bits times 2 to the exponent, ties to the even
\* significand.  bits starts with a one and has more than 53 bits; inexact
\* tells that bits of the exact value follow those given.
roundToNearest(bits, inexact, exponent) ==
  LET kept == SubSeq(bits, 1, SignificandBits)
      half == bits[SignificandBits + 1]
      below == inexact \/ \E i \in (SignificandBits + 2)..Len(bits) : bits[i] = 1
      raised == plusOne(kept)
  IN  IF ~(half = 1 /\ (below \/ kept[SignificandBits] = 1))
      THEN [bits |-> kept, exponent |-> exponent]
      ELSE IF Len(raised) > SignificandBits
      THEN [bits |-> SubSeq(raised, 1, SignificandBits), exponent |-> exponent + 1]
      ELSE [bits |-> raised, exponent |-> exponent]

\* processed / total, for 0 < processed < total
divide(processed, total) ==
  LET q == quotient(processed, total, 8)
      bits == bitsOf(q.bytes)
  IN  roundToNearest(SubSeq(bits, firstOne(bits), Len(bits)), q.rest # 0,
                     1 - firstOne(bits))

\* x * 100
times100(x) ==
  LET product == bitsOf(scaled(bytesOf(zeros(3) \o x.bits), 100, 0))
  IN  roundToNearest(SubSeq(product, firstOne(product), Len(product)), FALSE,
                     x.exponent + Len(product) - SignificandBits + 1 - firstOne(product))

\* Math.round(x) for x >= 0: the whole part of x, and one more when the first
\* bit after the point is set.
mathRound(x) ==
  LET whole == IF x.exponent >= 1 THEN valueOf(SubSeq(x.bits, 1, x.exponent)) ELSE 0
      half == IF x.exponent >= 0 THEN x.bits[x.exponent + 1] ELSE 0
  IN  whole + half

\* A percentage that is cut off, not rounded.
PercentCutOff(processed, total) == (100 * processed) \div total

\* Math.round((processedChunks / totalChunks) * 100)
roundedPercent(processed, total) ==
  IF processed = 0 THEN 0
  ELSE IF processed = total THEN 100
  ELSE mathRound(times100(divide(processed, total)))

-----------------------------------------------------------------------------
(* The progress of processChunksInParallel, batch by batch: a batch is one *)
(* step, at whose end every promise of it has settled.                     *)

\* The credential lists of these runs: 1 to 9 distinct keys.
ProgressKeys == <<"k1", "k2", "k3", "k4", "k5", "k6", "k7", "k8", "k9">>
ProgressPools == {SubSeq(ProgressKeys, 1, n) : n \in 1..(maxBatch + 1)}

\* batch.length of the batch that starts at chunk i
batchLength(i) == Min(i + batchSize, totalChunks) - i

InitProgress ==
  /\ ServiceIdle
  /\ keys \in ProgressPools
  /\ currentIndex = 0
  /\ exhaustedKeys = {}
  /\ poolLog = <<>>
  /\ poolLast = NoCall
  /\ PipelineIdle
  /\ ChunkerIdle
  /\ RepairIdle
  /\ CleanupIdle
  /\ RulesIdle

\* processChunksInParallel is called with n chunks.
ProgressStart ==
  /\ pc = "idle"
  /\ outcome = Pending
  /\ totalChunks' \in 1..MaxProgressChunks
  /\ batchSize' = Min(maxBatch, getAvailableKeyCount(keys, exhaustedKeys))
  /\ batchI' = 0
  /\ processedChunks' = 0
  /\ outcome' = [state |-> "running", message |-> NoMessage, caught |-> {}]
  /\ pc' = "batchHead"
  /\ UNCHANGED <<toolVars, poolVars, logVars, results, lastPercent, tasks, completionOrder,
                 chunkResults, startedExhausted, stageVars, serviceVars>>

\* The head of a turn of the batch loop: the percentage is reported and the
\* batch is launched.
ProgressReport ==
  /\ pc = "batchHead"
  /\ batchI < totalChunks
  /\ lastPercent' = roundedPercent(processedChunks, totalChunks)
  /\ pc' = "awaitBatch"
  /\ UNCHANGED <<toolVars, poolVars, logVars, totalChunks, batchI, batchSize, results,
                 processedChunks, tasks, completionOrder, chunkResults, outcome,
                 startedExhausted, stageVars, serviceVars>>

\* Every promise of the batch was fulfilled: the results are counted, the
\* percentage is reported and, after the pause, the loop goes on.
ProgressBatchSucceeds ==
  /\ pc = "awaitBatch"
  /\ processedChunks' = processedChunks + batchLength(batchI)
  /\ lastPercent' = roundedPercent(processedChunks + batchLength(batchI), totalChunks)
  /\ batchI' = batchI + batchSize
  /\ pc' = "batchHead"
  /\ UNCHANGED <<toolVars, poolVars, logVars, totalChunks, batchSize, results, tasks,
                 completionOrder, chunkResults, outcome, startedExhausted, stageVars, serviceVars>>

\* A promise of the batch was rejected: the forEach counts the fulfilled ones
\* before it and throws.
ProgressBatchFails ==
  /\ pc = "awaitBatch"
  /\ \E fulfilled \in 0..(batchLength(batchI) - 1) :
       processedChunks' = processedChunks + fulfilled
  /\ Reject({"chunk failed"})
  /\ UNCHANGED <<toolVars, poolVars, logVars, totalChunks, batchI, batchSize, results,
                 lastPercent, tasks, completionOrder, chunkResults, startedExhausted,
                 stageVars, serviceVars>>

\* The loop has ended and processChunksInParallel returns.
ProgressDone ==
  /\ pc = "batchHead"
  /\ batchI >= totalChunks
  /\ processedChunks = totalChunks
  /\ chunkResults' = [returned |-> TRUE, value |-> <<>>]
  /\ pc' = "stage3"
  /\ UNCHANGED <<toolVars, poolVars, logVars, totalChunks, batchI, batchSize, results,
                 processedChunks, lastPercent, tasks, completionOrder, outcome,
                 startedExhausted, stageVars, serviceVars>>

NextProgress ==
  \/ ProgressStart
  \/ ProgressReport
  \/ ProgressBatchSucceeds
  \/ ProgressBatchFails
  \/ ProgressDone

SpecProgress == InitProgress /\ [][NextProgress]_vars

-----------------------------------------------------------------------------
(* Properties of the progress messages.                                    *)

\* A percentage is reported in this step.
ReportMade ==
  \/ pc = "batchHead" /\ pc' = "awaitBatch"
  \/ pc = "awaitBatch" /\ pc' = "batchHead"

\* 100 * part / whole rounded to the nearest whole number, a half upwards.
RoundHalfUp(part, whole) == (200 * part + whole) \div (2 * whole)

\* percent is a whole number nearest to 100 * part / whole.
IsNearest(percent, part, whole) ==
  /\ 2 * (whole * percent - 100 * part) <= whole
  /\ 2 * (100 * part - whole * percent) <= whole

\* C27 as stated: the percentages reported over a run do not decrease, each is
\* 100 * processed / total of the moment rounded to the nearest whole number,
\* and when processChunksInParallel has returned the last one was 100.
C27_ProgressIsRoundedPercent ==
  /\ [][ReportMade =>
          /\ lastPercent' >= lastPercent
          /\ lastPercent' = RoundHalfUp(processedChunks', totalChunks)]_vars
  /\ [](chunkResults.returned => lastPercent = 100)

\* C27 amended: the same, but where 100 * processed / total lies half way
\* between two whole numbers the percentage may be either of them.
C27_ProgressIsNearestPercent ==
  /\ [][ReportMade =>
          /\ lastPercent' >= lastPercent
          /\ IsNearest(lastPercent', processedChunks', totalChunks)]_vars
  /\ [](chunkResults.returned => lastPercent = 100)

\* 23 of 40 chunks are processed and 57% was reported.
C27_Witness ==
  /\ totalChunks = 40
  /\ processedChunks = 23
  /\ lastPercent = 57
  /\ pc = "batchHead"

-----------------------------------------------------------------------------
(* The report paragraphs of analyzeContractWithGemini by their ids: the    *)
(* paragraphs are chunked, the model answers with items that carry ids,    *)
(* and stage 8 looks the item of every paragraph up by its id.             *)

\* Largest number of paragraphs of these contracts and of items the model
\* returns over all chunks.
MaxReportParagraphs == 3
MaxAnswers == 2

\* The paragraph lists of these runs.
ReportTexts ==
  UNION {[1..n -> {<<3>>, <<30, 30>>}] : n \in 0..MaxReportParagraphs}

\* The ids of the paragraphs chunk c showed to the model, and an id the model
\* made up.
chunkIds(c) == {chunks[c].paragraphs[q].id : q \in 1..Len(chunks[c].paragraphs)}

inventedId == [prefix |-> "p", n |-> 0]

\* The items the model can return for the chunks: a risk without comment or
\* a comment without category.
answerItems ==
  {[id |-> i, category |-> f[1], comment |-> f[2], recommendation |-> Null,
    improvedClause |-> Null, legalRisk |-> Null] :
     i \in UNION {chunkIds(c) : c \in 1..Len(chunks)} \cup {inventedId},
     f \in {<<"risk", Null>>, <<Null, "text">>}}

\* An item found whatever kind of id it carries: the number alone decides.
FindByNumber(all, id) ==
  LET hits == {i \in 1..Len(all) : all[i].id.n = id.n}
  IN  IF hits = {} THEN 0 ELSE CHOOSE i \in hits : \A k \in hits : i <= k

\* allAnalysis.find(item => item.id === paragraph.id): the index of the first
\* item with the id, 0 for undefined.
findItem(all, id) ==
  LET hits == {i \in 1..Len(all) : all[i].id = id}
  IN  IF hits = {} THEN 0 ELSE CHOOSE i \in hits : \A k \in hits : i <= k

\* analysis?.field || null
fieldOrNull(all, i, field) == IF i = 0 THEN Null ELSE orNull(all[i][field])

\* The callback of paragraphs.map(...) in stage 8.
reportEntry(all, paragraph) ==
  LET i == findItem(all, paragraph.id)
  IN  [id |-> paragraph.id,
       text |-> paragraph.text,
       category |-> fieldOrNull(all, i, "category"),
       comment |-> fieldOrNull(all, i, "comment"),
       recommendation |-> fieldOrNull(all, i, "recommendation"),
       improvedClause |-> fieldOrNull(all, i, "improvedClause"),
       legalRisk |-> fieldOrNull(all, i, "legalRisk"),
       isExpanded |-> FALSE]

InitReport ==
  /\ ServiceIdle
  /\ keys = <<"k1">>
  /\ currentIndex = 0
  /\ exhaustedKeys = {}
  /\ poolLog = <<>>
  /\ poolLast = NoCall
  /\ PipelineIdle
  /\ RepairIdle
  /\ CleanupIdle
  /\ RulesIdle
  /\ \E texts \in ReportTexts : paragraphs = ParagraphsOf(texts)
  /\ maxTokensPerChunk = 20
  /\ overlapSentences \in {1, 2}
  /\ loopI = 0
  /\ chunks = <<>>
  /\ currentChunk = <<>>
  /\ currentTokenCount = 0
  /\ previousChunkSentences = <<>>
  /\ chunksReturned = FALSE

\* Stages 2 and 3: the model has answered for the chunks; the items of the
\* chunk results are cleaned and gathered in allAnalysis.
CollectAnalysis ==
  /\ chunksReturned
  /\ cleanupStage = "none"
  /\ \E n \in 0..MaxAnswers : chunkAnalysis' \in [1..n -> answerItems]
  /\ allAnalysis' = [j \in DOMAIN chunkAnalysis' |-> cleanItem(chunkAnalysis'[j])]
  /\ cleanupStage' = "aggregated"
  /\ UNCHANGED <<poolVars, logVars, pipeVars, chunkerVars, repairVars, ruleVars, spanVars,
                 contractParagraphs, serviceVars>>

\* Stage 8: one report paragraph per paragraph of splitIntoSpans.
FinalizeReport ==
  /\ chunksReturned
  /\ cleanupStage = "aggregated"
  /\ contractParagraphs' = [j \in 1..Len(paragraphs) |-> reportEntry(allAnalysis, paragraphs[j])]
  /\ cleanupStage' = "reported"
  /\ UNCHANGED <<poolVars, logVars, pipeVars, chunkerVars, repairVars, ruleVars, spanVars,
                 chunkAnalysis, allAnalysis, serviceVars>>

NextReport ==
  \/ ChunkerStep
  \/ ChunkerReturn
  \/ CollectAnalysis
  \/ FinalizeReport

SpecReport == InitReport /\ [][NextReport]_vars

-----------------------------------------------------------------------------
(* Properties of the report paragraphs.                                    *)

\* The analysis fields of a report paragraph are those of item i.
TakenFrom(entry, i) ==
  /\ allAnalysis[i].id = entry.id
  /\ entry.category = orNull(allAnalysis[i].category)
  /\ entry.comment = orNull(allAnalysis[i].comment)

\* A report paragraph without analysis.
Unanalysed(entry) ==
  /\ \A i \in 1..Len(allAnalysis) : allAnalysis[i].id # entry.id
  /\ entry.category = Null
  /\ entry.comment = Null

\* C32: the report has one entry per paragraph of splitIntoSpans, in the same
\* order and with the same id and text; no entry is an overlap paragraph, and
\* the analysis of an entry is that of an item with the entry's own id, never
\* that of an item with the id of an overlap paragraph.
C32_ReportHoldsTheParagraphs ==
  cleanupStage = "reported" =>
    /\ Len(contractParagraphs) = Len(paragraphs)
    /\ \A j \in 1..Len(paragraphs) :
         /\ contractParagraphs[j].id = paragraphs[j].id
         /\ contractParagraphs[j].text = paragraphs[j].text
         /\ ~isSynthetic(contractParagraphs[j])
         /\ \/ Unanalysed(contractParagraphs[j])
            \/ \E i \in 1..Len(allAnalysis) :
                 ~isSynthetic(allAnalysis[i]) /\ TakenFrom(contractParagraphs[j], i)

\* The model returned an item with a category for the overlap paragraph of
\* chunk 2 and none for paragraph 2; the report was built.
C32_Witness ==
  /\ cleanupStage = "reported"
  /\ Len(chunks) >= 2
  /\ isSynthetic(chunks[2].paragraphs[1])
  /\ \E i \in 1..Len(allAnalysis) :
       /\ allAnalysis[i].id = chunks[2].paragraphs[1].id
       /\ allAnalysis[i].category = "risk"
  /\ Len(contractParagraphs) >= 2
  /\ contractParagraphs[2].category = Null

-----------------------------------------------------------------------------
(* The proxy POST /api/deepseek/chat of registerRoutes.                    *)

\* The most keys the environment configures.
MaxKeys == 2

\* A JavaScript number is NaN or a count of halves.
NaN == [nan |-> TRUE, halves |-> 0]
num(halves) == [nan |-> FALSE, halves |-> halves]

\* The values of DEEPSEEK_RETRY_COUNT: not set, or a text.
RetryEnvs == {"unset", "", "0", "1", "1.5", "2", "3", "abc"}

\* Number(text)
toNumber(text) ==
  CASE text = "" -> num(0)
    [] text = "0" -> num(0)
    [] text = "1" -> num(2)
    [] text = "1.5" -> num(3)
    [] text = "2" -> num(4)
    [] text = "3" -> num(6)
    [] OTHER -> NaN

\* Number(process.env.DEEPSEEK_RETRY_COUNT ?? 3)
DEFAULT_DEEPSEEK_RETRIES == IF retryEnv = "unset" THEN num(6) ELSE toNumber(retryEnv)

\* Math.max(1, x)
mathMaxOne(x) == IF x.nan THEN NaN ELSE IF x.halves > 2 THEN x ELSE num(2)

maxAttempts == mathMaxOne(DEFAULT_DEEPSEEK_RETRIES)

\* n < x, for an integer n: false when x is NaN.
lessThan(n, x) == ~x.nan /\ 2 * n < x.halves

\* attempt < maxAttempts - 1
attemptsLeft(n) == lessThan(n + 1, maxAttempts)

\* What the upstream answers, and how an upstream call ended.
UpstreamStatuses == {200, 400, 429, 500, 503}
PendingCall == [kind |-> "pending", status |-> 0]
Thrown == [kind |-> "threw", status |-> 0]
Answered(status) == [kind |-> "status", status |-> status]
isOk(status) == status >= 200 /\ status <= 299
FailedMessage == "Failed to call DeepSeek API"

\* res.status(status).json(body)
respond(status, body) == responses' = Append(responses, [status |-> status, body |-> body])

\* The head of the loop with attempt = n: the next upstream call with the
\* key of the attempt, or the response after the loop.
loopHead(n) ==
  IF lessThan(n, maxAttempts)
  THEN /\ proxyPc' = "fetching"
       /\ upstreamCalls' = Append(upstreamCalls, [key |-> n % keyCount, outcome |-> PendingCall])
       /\ responses' = responses
  ELSE /\ proxyPc' = "done"
       /\ upstreamCalls' = upstreamCalls
       /\ respond(500, FailedMessage)

endCall(ended) ==
  upstreamCalls' = [upstreamCalls EXCEPT ![Len(upstreamCalls)].outcome = ended]

InitProxy ==
  /\ ProgramIdle
  /\ RulesIdle
  /\ HookIdle
  /\ retryEnv \in RetryEnvs
  /\ keyCount \in 0..MaxKeys
  /\ proxyPc = "idle"
  /\ proxyAttempt = 0
  /\ lastError = Undef
  /\ upstreamCalls = <<>>
  /\ responses = <<>>

\* The request arrives: no key gives the response 500, else the loop begins.
ProxyRequest ==
  /\ proxyPc = "idle"
  /\ IF keyCount = 0
     THEN /\ proxyPc' = "done"
          /\ respond(500, "DeepSeek API key is not configured")
          /\ upstreamCalls' = upstreamCalls
     ELSE loopHead(0)
  /\ UNCHANGED <<poolVars, logVars, pipeVars, toolVars, hookVars, retryEnv, keyCount,
                 proxyAttempt, lastError>>

\* fetch resolved with a status; the body was JSON or could not be parsed.
UpstreamAnswers ==
  /\ proxyPc = "fetching"
  /\ \E status \in UpstreamStatuses, payload \in {"json", Null} :
       LET canRetryUpstreamError ==
             status >= 500 /\ status < 600 /\ attemptsLeft(proxyAttempt)
       IN  /\ endCall(Answered(status))
           /\ IF ~isOk(status) /\ canRetryUpstreamError
              THEN /\ lastError' = IF payload # Null THEN payload ELSE "statusText"
                   /\ proxyPc' = "sleeping"
                   /\ responses' = responses
              ELSE /\ lastError' = lastError
                   /\ proxyPc' = "done"
                   /\ IF ~isOk(status)
                      THEN respond(status, IF payload # Null THEN payload ELSE FailedMessage)
                      ELSE respond(200, payload)
  /\ UNCHANGED <<poolVars, logVars, pipeVars, toolVars, hookVars, retryEnv, keyCount,
                 proxyAttempt>>

\* fetch rejected: the network failed or the timeout aborted the call.
UpstreamThrows ==
  /\ proxyPc = "fetching"
  /\ endCall(Thrown)
  /\ lastError' = "error"
  /\ IF attemptsLeft(proxyAttempt)
     THEN /\ proxyPc' = "sleeping"
          /\ responses' = responses
     ELSE /\ proxyPc' = "done"
          /\ respond(500, FailedMessage)
  /\ UNCHANGED <<poolVars, logVars, pipeVars, toolVars, hookVars, retryEnv, keyCount,
                 proxyAttempt>>

\* sleep(300 * (attempt + 1)) is over: continue with attempt + 1.
SleepEnds ==
  /\ proxyPc = "sleeping"
  /\ proxyAttempt' = proxyAttempt + 1
  /\ loopHead(proxyAttempt + 1)
  /\ UNCHANGED <<poolVars, logVars, pipeVars, toolVars, hookVars, retryEnv, keyCount,
                 lastError>>

NextProxy == ProxyRequest \/ UpstreamAnswers \/ UpstreamThrows \/ SleepEnds

SpecProxy == InitProxy /\ [][NextProxy]_vars

-----------------------------------------------------------------------------
(* Properties of the proxy.                                                *)

isServerError(ended) ==
  ended.kind = "status" /\ ended.status >= 500 /\ ended.status <= 599
isRefusal(ended) ==
  ended.kind = "status" /\ ~isOk(ended.status) /\ ~isServerError(ended)

\* C38: for a request with at least one configured key, maxAttempts is a
\* number not below 1 and the proxy makes at most maxAttempts upstream calls;
\* a call that is not the first follows a call that gave a 5xx status or
\* threw; a status that is neither a success nor 5xx ends the calls and is the
\* status of the response; one response is sent, and no second one.
C38_ProxyBoundsItsCalls ==
  (keyCount >= 1 /\ proxyPc # "idle") =>
    /\ ~maxAttempts.nan /\ maxAttempts.halves >= 2
    /\ 2 * Len(upstreamCalls) <= maxAttempts.halves
    /\ \A i \in 2..Len(upstreamCalls) :
         upstreamCalls[i - 1].outcome = Thrown \/ isServerError(upstreamCalls[i - 1].outcome)
    /\ \A i \in 1..Len(upstreamCalls) :
         isRefusal(upstreamCalls[i].outcome) =>
           /\ i = Len(upstreamCalls)
           /\ Len(responses) = 1
           /\ responses[1].status = upstreamCalls[i].outcome.status
    /\ Len(responses) <= 1
    /\ proxyPc = "done" <=> Len(responses) = 1

-----------------------------------------------------------------------------
(* The hook useDeepseekAnalysis and its analyzeContract.                   *)

\* The most invocations of analyzeContract.
MaxInvocations == 2

ProgressMessages == {"stage 1", "stage 8"}
SaveEndings == {"stored", "http error", "threw"}

\* An invocation: where it stands, the persistence requests it made, how the
\* last of them ended, and what the caller got.
NotInvoked == [pc |-> "idle", saves |-> 0, saveEnded |-> "none", result |-> "none"]

\* A hook whose failed persistence request fails the invocation.
SaveFailureRejects(ending) == IF ending = "threw" THEN "rejected" ELSE "resolved"

\* The inner try of analyzeContract: a rejected fetch is caught and logged,
\* a response is not looked at, and the result is returned.
saveOutcome(ending) == "resolved"

InitHook ==
  /\ ProgramIdle
  /\ RulesIdle
  /\ ProxyIdle
  /\ isLoading = FALSE
  /\ errorState = Null
  /\ progress = ""
  /\ invocations = [i \in 1..MaxInvocations |-> NotInvoked]

\* analyzeContract is called: the three setters, then analyzeContractWithGemini.
InvokeAnalyzeContract(i) ==
  /\ invocations[i].pc = "idle"
  /\ isLoading' = TRUE
  /\ errorState' = Null
  /\ progress' = ""
  /\ invocations' = [invocations EXCEPT ![i].pc = "analysing"]
  /\ UNCHANGED <<poolVars, logVars, pipeVars, toolVars, proxyVars>>

\* handleProgress(message), called by the analysis of the invocation.
HandleProgress(i) ==
  /\ invocations[i].pc = "analysing"
  /\ \E message \in ProgressMessages : progress' = message
  /\ UNCHANGED <<poolVars, logVars, pipeVars, toolVars, proxyVars, isLoading, errorState,
                 invocations>>

\* analyzeContractWithGemini resolved: the persistence request is sent.
AnalysisResolves(i) ==
  /\ invocations[i].pc = "analysing"
  /\ invocations' = [invocations EXCEPT ![i].pc = "saving", ![i].saves = @ + 1]
  /\ UNCHANGED <<poolVars, logVars, pipeVars, toolVars, proxyVars, isLoading, errorState,
                 progress>>

\* The persistence request settled; the invocation returns through finally.
SaveSettles(i) ==
  /\ invocations[i].pc = "saving"
  /\ \E ending \in SaveEndings :
       IF saveOutcome(ending) = "resolved"
       THEN /\ invocations' = [invocations EXCEPT ![i].pc = "resolved",
                                                  ![i].saveEnded = ending,
                                                  ![i].result = "report"]
            /\ errorState' = errorState
       ELSE /\ invocations' = [invocations EXCEPT ![i].pc = "rejected",
                                                  ![i].saveEnded = ending,
                                                  ![i].result = "rethrown"]
            /\ errorState' = "Failed to fetch"
  /\ isLoading' = FALSE
  /\ progress' = ""
  /\ UNCHANGED <<poolVars, logVars, pipeVars, toolVars, proxyVars>>

\* analyzeContractWithGemini rejected: catch sets the error and rethrows,
\* finally resets isLoading and progress.
AnalysisRejects(i) ==
  /\ invocations[i].pc = "analysing"
  /\ invocations' = [invocations EXCEPT ![i].pc = "rejected", ![i].result = "rethrown"]
  /\ errorState' = "Analysis failed"
  /\ isLoading' = FALSE
  /\ progress' = ""
  /\ UNCHANGED <<poolVars, logVars, pipeVars, toolVars, proxyVars>>

NextHook ==
  \E i \in 1..MaxInvocations :
    \/ InvokeAnalyzeContract(i)
    \/ HandleProgress(i)
    \/ AnalysisResolves(i)
    \/ SaveSettles(i)
    \/ AnalysisRejects(i)

SpecHook == InitHook /\ [][NextHook]_vars

-----------------------------------------------------------------------------
(* Properties of the hook.                                                 *)

InFlightInvocation(i) == invocations[i].pc \in {"analysing", "saving"}
SettledInvocation(i) == invocations[i].pc \in {"resolved", "rejected"}

\* C39: an invocation sends the persistence request at most once and only
\* after its analysis succeeded; when the request fails the invocation still
\* returns the result; the error state is set by a failed analysis only.
C39_SaveFailureIsNotAnError ==
  /\ \A i \in 1..Len(invocations) :
       /\ invocations[i].saves <= 1
       /\ invocations[i].saves = 1 <=> invocations[i].pc \in {"saving", "resolved"}
       /\ invocations[i].pc = "rejected" => invocations[i].saves = 0
       /\ invocations[i].saveEnded = "threw" =>
            invocations[i].pc = "resolved" /\ invocations[i].result = "report"
  /\ errorState # Null =>
       \E j \in 1..Len(invocations) :
         invocations[j].pc = "rejected" /\ invocations[j].saves = 0

\* The persistence request of an invocation failed, the invocation returned
\* the result, and the error state is null.
C39_Witness ==
  /\ errorState = Null
  /\ \E i \in 1..Len(invocations) :
       /\ invocations[i].saves = 1
       /\ invocations[i].saveEnded = "threw"
       /\ invocations[i].result = "report"

\* C40: isLoading is true whenever an invocation is in flight, and once all
\* invocations made have settled it is false and progress is "".
C40_LoadingWhileInFlight ==
  /\ (\E i \in 1..Len(invocations) : InFlightInvocation(i)) => isLoading
  /\ (/\ \E i \in 1..Len(invocations) : SettledInvocation(i)
      /\ \A i \in 1..Len(invocations) : ~InFlightInvocation(i))
       => ~isLoading /\ progress = ""

=========================================================================
